---- MODULE Spec2Model ----
(***************************************************************************)
(* A model of the CIRCLE field-validation engine: the service             *)
(* CircleValidatorService (circle_validator.py) and the rule classes of   *)
(* validations/.  A record value is a scalar string, a list, or null; a    *)
(* rule returns None (pass), a message (error), or raises.  A message is   *)
(* the sequence of its text pieces, written without accents.               *)
(*                                                                         *)
(* Spec is the service alone.  SpecOrders is the order management built    *)
(* on it (src/order_management.py over src/database.py), and SpecApi the   *)
(* HTTP order API (main_api.py over database_setup.py).                    *)
(***************************************************************************)
EXTENDS Naturals, Sequences, FiniteSets

\* ------------------------------------------------------------------ bounds
\* validate() calls made on one service object
MaxCalls == 2
\* rules listed under one field code of the config
MaxRules == 2
\* elements of a flat list value
MaxLen == 2

\* ------------------------------------------------------------------ values
\* A field value: Python str, list or None.  k is the dynamic type.
S(s) == [k |-> "str", s |-> s, items |-> <<>>]
L(xs) == [k |-> "list", s |-> "", items |-> xs]
None == [k |-> "none", s |-> "", items |-> <<>>]

\* isinstance(v, list) / isinstance(v, str)
IsList(v) == v.k = "list"
IsStr(v) == v.k = "str"

Range(f) == {f[i] : i \in DOMAIN f}

\* dict.get(key): the value, or None when the key is absent
Get(d, key) == IF key \in DOMAIN d THEN d[key] ELSE None

\* dict.get(key, []): the value, or the empty list when the key is absent
GetOrEmptyList(d, key) == IF key \in DOMAIN d THEN d[key] ELSE L(<<>>)

\* Python truthiness of a value (not v): None, "" and [] are falsy
Truthy(v) == \/ IsStr(v) /\ v.s # ""
             \/ IsList(v) /\ Len(v.items) > 0

\* `values = self.value if isinstance(self.value, list) else [self.value]`
AsList(v) == IF IsList(v) THEN v.items ELSE <<v>>

\* `x in xs` for a list xs of strings: a non-string never equals a string
InStrs(v, strs) == IsStr(v) /\ v.s \in strs

\* all sequences over a set, of length at most n
SeqsUpTo(set, n) == UNION {[1..m -> set] : m \in 0..n}

\* str(v) and repr(v), as a sequence of text tokens
RECURSIVE Repr(_)
RECURSIVE ReprItems(_, _)
ReprItems(xs, i) ==
    IF i > Len(xs) THEN <<>>
    ELSE (IF i > 1 THEN <<", ">> ELSE <<>>) \o Repr(xs[i]) \o ReprItems(xs, i + 1)
Repr(v) ==
    IF IsStr(v) THEN <<"'", v.s, "'">>
    ELSE IF IsList(v) THEN <<"[">> \o ReprItems(v.items, 1) \o <<"]">>
    ELSE <<"None">>
Str(v) == IF IsStr(v) THEN <<v.s>> ELSE Repr(v)

\* str(n) for a small natural number
NumStr(n) ==
    IF n < 10 THEN <<"0", "1", "2", "3", "4", "5", "6", "7", "8", "9">>[n + 1] ELSE "many"

\* ', '.join(xs) for a list of strings xs
RECURSIVE Join(_, _, _)
Join(sep, xs, i) ==
    IF i > Len(xs) THEN <<>>
    ELSE (IF i > 1 THEN <<sep>> ELSE <<>>) \o <<xs[i].s>> \o Join(sep, xs, i + 1)

\* str.join raises TypeError when an item is not a str
JoinRaises(xs) == \E i \in DOMAIN xs : ~IsStr(xs[i])

\* [x for x in xs if P(x)]
RECURSIVE Filter(_, _, _)
Filter(xs, P(_), i) ==
    IF i > Len(xs) THEN <<>>
    ELSE (IF P(xs[i]) THEN <<xs[i]>> ELSE <<>>) \o Filter(xs, P, i + 1)

\* ------------------------------------------------------- rule specifications
\* A rule specification with every parameter at the default rule.get() gives.
Rule(type) ==
    [type |-> type,
     combination_codes |-> <<>>,
     combinaison_mode |-> "combined_codes",
     forbidden_values |-> <<>>,
     match_array_length |-> FALSE,
     allowed_values |-> <<>>,
     source_code |-> "",
     source_value |-> "",
     target_value |-> "",
     excluded_combinations |-> <<>>,
     pattern |-> ""]

\* ---------------------------------------------------------- rule outcomes
\* What one rule invocation did: its result, the allowed-values lookups it
\* made (code, version), and the record as the invocation left it.
NoMsg == <<>>
Passed(self, calls) ==
    [kind |-> "pass", msg |-> NoMsg, calls |-> calls, cv |-> self.circle_values]
Failed(self, msg, calls) ==
    [kind |-> "error", msg |-> msg, calls |-> calls, cv |-> self.circle_values]
Raised(self, exc, calls) ==
    [kind |-> "raise", msg |-> <<exc>>, calls |-> calls, cv |-> self.circle_values]


\* ------------------------------------------------------ lookup capabilities
\* The allowed-values table of test_validations.py (fake_db.get(code, [])).
fake_db(code) ==
    CASE code = "C0" -> {"11"}
      [] code = "C1" -> {"A0"}
      [] code = "C2" -> {"6"}
      [] code = "C10" -> {"1111A0"}
      [] code = "C11" -> {"2020", "2021", "2022", "2023", "2024", "2025", "2026"}
      [] code = "C21" -> {"00", "A2"}
      [] code = "C26" -> {"00"}
      [] code = "C27" -> {"A3", "00"}
      [] code = "C38" -> {"A1", "A2"}
      [] code = "C50" -> {"00", "A2"}
      [] code = "C53F" -> {"https://example.com"}
      [] OTHER -> {}

\* The allowed-values table of src/order_management.py (fake_db.get(code, [])).
order_fake_db(code) ==
    CASE code = "C0" -> {"11", "12"}
      [] code = "C1" -> {"A0", "B0"}
      [] code = "C10" -> {"PRODUCT_A", "PRODUCT_B", "BORDEAUX_SUPERIEUR_2022"}
      [] code = "C11" -> {"2020", "2021", "2022", "2023"}
      [] code = "C41" -> {"75CL", "150CL", "37.5CL"}
      [] OTHER -> {}

\* The injected allowed_values_lookup: "default" is the constructor's
\* fallback (lambda code, version: []), "fake_db" the table above, and
\* "failing" a capability whose every call raises.  The order management
\* module injects its own, "order_management", with the table above.
Lookups == {"default", "fake_db", "failing"}
LookupRaises(lookup) == lookup = "failing"
LookupValues(lookup, code, version) ==
    IF lookup = "fake_db" THEN fake_db(code)
    ELSE IF lookup = "order_management" THEN order_fake_db(code)
    ELSE {}

\* a record that is never in casket mode
casket_mode_never(self) == FALSE

\* a casket mode that also holds when C2 is a sequence containing "00"
casket_mode_containing(self) ==
    S("00") \in Range(AsList(Get(self.circle_values, "C2")))

\* BaseValidation.casket_mode
casket_mode(self) == Get(self.circle_values, "C2") = S("00")

\* BaseValidation.allowed_values: the lookup is called with the rule's own
\* code unless one is given, and with the version the rule was built with.
allowed_values(self, code) ==
    [call |-> <<code, self.version>>,
     raises |-> LookupRaises(self.allowed_values_lookup),
     values |-> LookupValues(self.allowed_values_lookup, code, self.version)]

\* first index in 1..n satisfying P, or 0
MinOrZero(set) == IF set = {} THEN 0 ELSE CHOOSE i \in set : \A j \in set : i <= j
FirstIndex(n, P(_)) == MinOrZero({i \in 1..n : P(i)})

\* an in_database that names the last value that is not allowed
in_database_validate_last_offender(self) ==
    LET allowed == allowed_values(self, self.code)
        values == AsList(self.value)
        bad == {i \in DOMAIN values : ~InStrs(values[i], allowed.values)}
    IN IF allowed.raises THEN Raised(self, "LookupError", {allowed.call})
       ELSE IF bad # {}
       THEN Failed(self, <<"La valeur '">>
                          \o Str(values[CHOOSE i \in bad : \A j \in bad : j <= i])
                          \o <<"' de ", self.code, " n'existe pas en base.">>, {allowed.call})
       ELSE Passed(self, {allowed.call})

\* ------------------------------------------------------------- in_database
in_database_validate(self) ==
    LET allowed == allowed_values(self, self.code)
        values == AsList(self.value)
        bad == FirstIndex(Len(values), LAMBDA i : ~InStrs(values[i], allowed.values))
    IN IF allowed.raises THEN Raised(self, "LookupError", {allowed.call})
       ELSE IF bad # 0
       THEN Failed(self, <<"La valeur '">> \o Str(values[bad]) \o <<"' de ", self.code,
                           " n'existe pas en base.">>, {allowed.call})
       ELSE Passed(self, {allowed.call})

\* a forbidden_value whose message holds the first violating value only
forbidden_value_validate_first_only(self) ==
    LET forbidden == Range(self.rule.forbidden_values)
        values == AsList(self.value)
        violating == Filter(values, LAMBDA v : InStrs(v, forbidden), 1)
    IN IF Len(violating) > 0
       THEN Failed(self, <<"La valeur '">> \o Str(violating[1])
                          \o <<"' presente pour ", self.code, " n'est pas autorisee.">>, {})
       ELSE Passed(self, {})

\* --------------------------------------------------------- forbidden_value
forbidden_value_validate(self) ==
    LET forbidden == Range(self.rule.forbidden_values)
        values == AsList(self.value)
        violating == Filter(values, LAMBDA v : InStrs(v, forbidden), 1)
    IN IF Len(violating) > 0
       THEN IF JoinRaises(violating) THEN Raised(self, "TypeError", {})
            ELSE Failed(self, <<"La valeur '">> \o Join(", ", violating, 1)
                               \o <<"' presente pour ", self.code, " n'est pas autorisee.">>, {})
       ELSE Passed(self, {})

\* --------------------------------------------------------- duplicate_value
\* set(self.value) hashes every element: a list element raises TypeError.
Unhashable(xs) == \E i \in DOMAIN xs : IsList(xs[i])

RECURSIVE StrAll(_, _)
StrAll(xs, i) ==
    IF i > Len(xs) THEN <<>>
    ELSE (IF i > 1 THEN <<", ">> ELSE <<>>) \o Str(xs[i]) \o StrAll(xs, i + 1)

duplicate_value_validate(self) ==
    IF ~IsList(self.value) THEN Passed(self, {})
    ELSE IF Unhashable(self.value.items) THEN Raised(self, "TypeError", {})
    ELSE IF Len(self.value.items) # Cardinality(Range(self.value.items))
    THEN Failed(self, <<self.code, " ne doit pas contenir de doublons (valeurs : ">>
                       \o StrAll(self.value.items, 1) \o <<").">>, {})
    ELSE Passed(self, {})

\* a single_value that is bypassed when casket mode is inactive
single_value_validate_bypass_inverted(self) ==
    IF ~casket_mode(self) THEN Passed(self, {})
    ELSE IF IsList(self.value) /\ Len(self.value.items) # 1
    THEN Failed(self, <<"Le champ ", self.code, " doit contenir une seule valeur.">>, {})
    ELSE Passed(self, {})

\* ------------------------------------------------------------ single_value
single_value_validate(self) ==
    IF casket_mode(self) THEN Passed(self, {})
    ELSE IF IsList(self.value) /\ Len(self.value.items) # 1
    THEN Failed(self, <<"Le champ ", self.code, " doit contenir une seule valeur.">>, {})
    ELSE Passed(self, {})

\* a casket_value that compares lengths whether or not casket mode is active
casket_value_validate_always_active(self) ==
    LET c2 == Get(self.circle_values, "C2")
        expected_length == IF IsList(c2) THEN Len(c2.items) ELSE 1
    IN IF ~self.rule.match_array_length THEN Passed(self, {})
       ELSE IF ~IsList(self.value)
       THEN Failed(self, <<"En coffret, ", self.code, " doit etre un tableau de ",
                           NumStr(expected_length), " elements.">>, {})
       ELSE IF Len(self.value.items) # expected_length
       THEN Failed(self, <<"En coffret, ", self.code, " doit etre un tableau de ",
                           NumStr(expected_length), " element(s) (taille recue : ",
                           NumStr(Len(self.value.items)), ").">>, {})
       ELSE Passed(self, {})

\* ------------------------------------------------------------ casket_value
casket_value_validate(self) ==
    IF ~casket_mode(self) THEN Passed(self, {})
    ELSE IF self.rule.match_array_length
    THEN LET c2 == Get(self.circle_values, "C2")
             expected_length == IF IsList(c2) THEN Len(c2.items) ELSE 1
             actual_length == IF IsList(self.value) THEN Len(self.value.items) ELSE 0
         IN IF ~IsList(self.value)
            THEN Failed(self, <<"En coffret, ", self.code, " doit etre un tableau de ",
                                NumStr(expected_length), " elements.">>, {})
            ELSE IF actual_length # expected_length
            THEN Failed(self, <<"En coffret, ", self.code, " doit etre un tableau de ",
                                NumStr(expected_length), " element(s) (taille recue : ",
                                NumStr(actual_length), ").">>, {})
            ELSE Passed(self, {})
    ELSE LET allowed == self.rule.allowed_values
             values == AsList(self.value)
             violating == Filter(values, LAMBDA v : ~InStrs(v, Range(allowed)), 1)
         IN IF Len(violating) > 0
            THEN IF JoinRaises(violating) THEN Raised(self, "TypeError", {})
                 ELSE Failed(self, <<"En coffret, ", self.code, " doit etre egal a ">>
                                    \o allowed \o <<" (valeur recue : '">>
                                    \o Join(", ", violating, 1) \o <<"').">>, {})
            ELSE Passed(self, {})

\* a dependency that holds both ways: the target value also asks for the
\* source value
dependency_validate_both_ways(self) ==
    LET src_values == AsList(GetOrEmptyList(self.circle_values, self.rule.source_code))
        tgt_values == AsList(self.value)
    IN IF (S(self.rule.source_value) \in Range(src_values))
          # (S(self.rule.target_value) \in Range(tgt_values))
       THEN Failed(self, <<"Si ", self.rule.source_code, " vaut '", self.rule.source_value,
                           "', alors ", self.code, " doit etre '", self.rule.target_value,
                           "' (valeur recue : '">> \o Str(self.value) \o <<"').">>, {})
       ELSE Passed(self, {})

\* -------------------------------------------------------------- dependency
dependency_validate(self) ==
    LET src_values == AsList(GetOrEmptyList(self.circle_values, self.rule.source_code))
        tgt_values == AsList(self.value)
    IN IF S(self.rule.source_value) \in Range(src_values)
          /\ S(self.rule.target_value) \notin Range(tgt_values)
       THEN Failed(self, <<"Si ", self.rule.source_code, " vaut '", self.rule.source_value,
                           "', alors ", self.code, " doit etre '", self.rule.target_value,
                           "' (valeur recue : '">> \o Str(self.value) \o <<"').">>, {})
       ELSE Passed(self, {})


\* ------------------------------------------------------- regular expressions
\* re.compile(regex).match(text) on the texts of the model: the pairs
\* (regex, text) where the regex matches at the start of the text.
RegexMatches ==
    {<<"https://", "https://example.com">>,
     <<"A[0-9]", "A0">>, <<"A[0-9]", "A2">>}

\* regex.match(str(value)): the empty regex matches every text; the text of
\* a list starts with "[" and matches no other regex of the model
RegexMatch(regex, value) ==
    regex = "" \/ (IsStr(value) /\ <<regex, value.s>> \in RegexMatches)

\* ------------------------------------------------------------- match_value
match_value_validate(self) ==
    LET values == AsList(self.value)
        bad == FirstIndex(Len(values), LAMBDA i : ~RegexMatch(self.rule.pattern, values[i]))
    IN IF bad # 0
       THEN Failed(self, <<"L'URL de ", self.code,
                           " doit commencer par 'https://', valeur recue : '">>
                          \o Str(values[bad]) \o <<"'.">>, {})
       ELSE Passed(self, {})

\* --------------------------------------------------- excluded_combinations
\* A pattern written /regex/ is a regular expression (pattern[1:-1]).
SlashPatterns == {"/A[0-9]/"}
RegexOf(pattern) == IF pattern = "/A[0-9]/" THEN "A[0-9]" ELSE ""

\* ExcludedCombinationsValidation.matches
matches(pattern, value) ==
    IF pattern \in SlashPatterns THEN RegexMatch(RegexOf(pattern), value)
    ELSE S(pattern) = value

\* xs without its i-th element (del xs[i])
DelAt(xs, i) == [k \in 1..(Len(xs) - 1) |-> IF k < i THEN xs[k] ELSE xs[k + 1]]

\* ExcludedCombinationsValidation.format_matched_values
RECURSIVE format_matched_values(_, _)
format_matched_values(matched, i) ==
    IF i > Len(matched) THEN <<>>
    ELSE (IF i > 1 THEN <<" + ">> ELSE <<>>) \o Str(matched[i])
         \o format_matched_values(matched, i + 1)

\* The loop of get_matched_values over the patterns from the p-th on: i is
\* the first available value the pattern matches (0: none, `return None`).
RECURSIVE match_patterns(_, _, _, _)
\* a matching step that leaves the matched value available to the next slots
match_pattern_at_reusing(combination, p, available_values, matched, i) ==
    IF i = 0
    THEN [found |-> FALSE, matched |-> <<>>, available |-> available_values]
    ELSE match_patterns(combination, p + 1, available_values,
                        Append(matched, available_values[i]))
match_pattern_at(combination, p, available_values, matched, i) ==
    IF i = 0
    THEN [found |-> FALSE, matched |-> <<>>, available |-> available_values]
    ELSE match_patterns(combination, p + 1, DelAt(available_values, i),
                        Append(matched, available_values[i]))
match_patterns(combination, p, available_values, matched) ==
    IF p > Len(combination)
    THEN [found |-> TRUE, matched |-> matched, available |-> available_values]
    ELSE match_pattern_at(combination, p, available_values, matched,
             FirstIndex(Len(available_values),
                        LAMBDA k : matches(combination[p], available_values[k])))

\* what get_matched_values hands back: the matched values (None when
\* found = FALSE) and the caller's list `values` as the call left it
matched_and_values(r, values) ==
    [found |-> r.found, matched |-> r.matched, values |-> values]

\* a get_matched_values that removes the matched values from the caller's
\* list itself instead of from a copy
get_matched_values_in_place(combination, values) ==
    LET r == match_patterns(combination, 1, values, <<>>)
    IN [found |-> r.found, matched |-> r.matched, values |-> r.available]

\* ExcludedCombinationsValidation.get_matched_values: the matching works on
\* a copy (available_values = values[:]), so the caller's list is left as it was.
get_matched_values(combination, values) ==
    matched_and_values(match_patterns(combination, 1, values, <<>>), values)

\* The record once the list the loop holds is `values`: that list is
\* self.value itself when self.value is a list, else a new list.
record_with(self, values) ==
    IF IsList(self.value)
    THEN [self.circle_values EXCEPT ![self.code] = L(values)]
    ELSE self.circle_values

\* The loop of validate over the combinations from the c-th on.
RECURSIVE excluded_scan(_, _, _)
excluded_next(self, c, m) ==
    IF m.found /\ Len(m.matched) > 0
    THEN [kind |-> "error",
          msg |-> <<"La combinaison ">> \o format_matched_values(m.matched, 1)
                  \o <<" n'est pas autorisee pour le code ", self.code, ".">>,
          calls |-> {}, cv |-> record_with(self, m.values)]
    ELSE excluded_scan(self, c + 1, m.values)
excluded_scan(self, c, values) ==
    IF c > Len(self.rule.excluded_combinations)
    THEN [kind |-> "pass", msg |-> NoMsg, calls |-> {}, cv |-> record_with(self, values)]
    ELSE excluded_next(self, c,
                       get_matched_values(self.rule.excluded_combinations[c], values))

excluded_combinations_validate(self) == excluded_scan(self, 1, AsList(self.value))


\* ------------------------------------------------- in_database_combination
\* The scan `for val in ...: if val not in self.allowed_values(code)` over
\* pairs (code, val): `bad` is the first pair whose lookup raises or whose
\* value is not allowed (0: none), and the lookups made are those up to it.
first_not_allowed(self, pairs) ==
    FirstIndex(Len(pairs), LAMBDA i :
        \/ allowed_values(self, pairs[i].code).raises
        \/ ~InStrs(pairs[i].val, allowed_values(self, pairs[i].code).values))

lookups_made(self, pairs, bad) ==
    {allowed_values(self, pairs[i].code).call :
        i \in 1..(IF bad = 0 THEN Len(pairs) ELSE bad)}

scan_result(self, pairs, bad, calls) ==
    IF bad = 0 THEN Passed(self, calls)
    ELSE IF allowed_values(self, pairs[bad].code).raises
    THEN Raised(self, "LookupError", calls)
    ELSE Failed(self, <<"La valeur '">> \o Str(pairs[bad].val) \o <<"' pour le code ",
                        pairs[bad].code, " n'existe pas en base.">>, calls)

scan_pairs(self, pairs, bad, calls) ==
    scan_result(self, pairs, bad, calls \cup lookups_made(self, pairs, bad))

\* a check_ensemble without the length test: a group longer than the codes
\* is let through and a shorter one indexes past its end
check_ensemble_unchecked_length(self, ensemble, codes, calls) ==
    IF ~IsList(ensemble)
    THEN Failed(self, <<"Un ensemble dans ", self.code, " doit etre un array de taille ",
                        NumStr(Len(codes)), " (recu : ">> \o Repr(ensemble) \o <<").">>, calls)
    ELSE IF Len(ensemble.items) < Len(codes) THEN Raised(self, "IndexError", calls)
    ELSE Passed(self, calls)

\* InDatabaseCombinationValidation.check_ensemble; `calls` are the lookups
\* made so far.
check_ensemble(self, ensemble, codes, calls) ==
    IF ~IsList(ensemble) \/ Len(ensemble.items) # Len(codes)
    THEN Failed(self, <<"Un ensemble dans ", self.code, " doit etre un array de taille ",
                        NumStr(Len(codes)), " (recu : ">> \o Repr(ensemble) \o <<").">>, calls)
    ELSE scan_pairs(self,
                    [i \in 1..Len(codes) |-> [code |-> codes[i], val |-> ensemble.items[i]]],
                    first_not_allowed(self,
                        [i \in 1..Len(codes) |-> [code |-> codes[i], val |-> ensemble.items[i]]]),
                    calls)

\* `for sub in combination: err = self.check_ensemble(sub, ...)`, from the
\* k-th ensemble on, returning at the first error (`if err: return err`)
RECURSIVE check_ensembles(_, _, _, _, _)
check_ensembles_next(self, ensembles, codes, k, err) ==
    IF err.kind # "pass" THEN err
    ELSE check_ensembles(self, ensembles, codes, k + 1, err.calls)
check_ensembles(self, ensembles, codes, k, calls) ==
    IF k > Len(ensembles) THEN Passed(self, calls)
    ELSE check_ensembles_next(self, ensembles, codes, k,
                              check_ensemble(self, ensembles[k], codes, calls))

\* a combined_codes mode without the extra level of nesting: every
\* combination is one ensemble
ensembles_of_flat_only(combination) == <<combination>>

\* the ensembles of one combination: its sub-lists when its first element is
\* a list (`combination and isinstance(combination[0], list)`), else itself
ensembles_of(combination) ==
    IF Len(combination.items) > 0 /\ IsList(combination.items[1])
    THEN combination.items ELSE <<combination>>

\* `for combination in self.value` (mode combined_codes), from the i-th on
RECURSIVE combined_codes_scan(_, _, _, _)
combined_codes_next(self, codes, i, err) ==
    IF err.kind # "pass" THEN err
    ELSE combined_codes_scan(self, codes, i + 1, err.calls)
combined_codes_scan(self, codes, i, calls) ==
    IF i > Len(self.value.items) THEN Passed(self, calls)
    ELSE IF ~IsList(self.value.items[i])
    THEN Failed(self, <<"Chaque element de ", self.code,
                        " doit etre un array (mode combined_codes). Recu: ">>
                       \o Repr(self.value.items[i]), calls)
    ELSE combined_codes_next(self, codes, i,
             check_ensembles(self, ensembles_of(self.value.items[i]), codes, 1, calls))

\* a single_code mode without alternates: the element of a position is
\* looked up as it is
RECURSIVE AlternatesUnexpanded(_, _, _)
AlternatesUnexpanded(elements, codes, idx) ==
    IF idx > Len(elements) THEN <<>>
    ELSE <<[code |-> codes[idx], val |-> elements[idx]]>>
         \o AlternatesUnexpanded(elements, codes, idx + 1)

\* (code, val) for every alternate of every position, in position order
\* (mode single_code: `values = element if isinstance(element, list) else [element]`)
RECURSIVE Alternates(_, _, _)
Alternates(elements, codes, idx) ==
    IF idx > Len(elements) THEN <<>>
    ELSE [k \in 1..Len(AsList(elements[idx])) |->
             [code |-> codes[idx], val |-> AsList(elements[idx])[k]]]
         \o Alternates(elements, codes, idx + 1)

single_code_scan(self, codes) ==
    scan_pairs(self, Alternates(self.value.items, codes, 1),
               first_not_allowed(self, Alternates(self.value.items, codes, 1)), {})

\* a rule without the special case of the value "00"
not_applicable_never(value) == FALSE

\* `isinstance(self.value, str) and self.value == "00"`
not_applicable(value) == IsStr(value) /\ value.s = "00"

in_database_combination_validate(self) ==
    LET combination_codes == self.rule.combination_codes
        mode == self.rule.combinaison_mode
    IN IF not_applicable(self.value) THEN Passed(self, {})
       ELSE IF mode = "combined_codes"
       THEN IF ~IsList(self.value)
            THEN Failed(self, <<"La valeur de ", self.code,
                                " doit etre un array (mode combined_codes).">>, {})
            ELSE combined_codes_scan(self, combination_codes, 1, {})
       ELSE IF mode = "single_code"
       THEN IF ~(IsList(self.value) /\ Len(self.value.items) = Len(combination_codes))
            THEN Failed(self, <<"La valeur de ", self.code, " doit etre un array de taille ",
                                NumStr(Len(combination_codes)), " (mode single_code). Recu: ">>
                               \o Repr(self.value), {})
            ELSE single_code_scan(self, combination_codes)
       ELSE Failed(self, <<"Mode de combinaison inconnu pour ", self.code, ".">>, {})

\* --------------------------------------------------------- product_vintage
\* The product master data (C10_products.csv) as load_product_data() gives
\* it: "unavailable" when the file cannot be loaded (None), else its rows.
NoRow == [CircleCode |-> "", StartingVintage |-> "", LateVintage |-> "", ExcludedVintage |-> ""]
ProductRows ==
    <<[CircleCode |-> "1111A0", StartingVintage |-> "2018", LateVintage |-> "ND",
       ExcludedVintage |-> "2020"]>>
ProductData == {"unavailable", "loaded"}

\* a lookup that hands back the first row when no row has the code
find_product_details_first_row(products, product_circle_code) ==
    IF products = "unavailable" THEN [found |-> FALSE, row |-> NoRow]
    ELSE [found |-> TRUE, row |-> ProductRows[1]]

\* streamlit_utils.find_product_details_by_circle_code: the first row whose
\* CircleCode equals the code, or None; None too when the data is unavailable.
find_product_details_by_circle_code(products, product_circle_code) ==
    LET hit == FirstIndex(Len(ProductRows),
                          LAMBDA i : ProductRows[i].CircleCode = product_circle_code.s)
    IN IF products = "unavailable" THEN [found |-> FALSE, row |-> NoRow]
       ELSE IF hit # 0 THEN [found |-> TRUE, row |-> ProductRows[hit]]
       ELSE [found |-> FALSE, row |-> NoRow]

\* ProductValidation.find_product (called by the constructor)
find_product(self) ==
    LET product_code_value == Get(self.circle_values, "C10")
    IN IF ~Truthy(product_code_value) THEN [found |-> FALSE, row |-> NoRow]
       ELSE find_product_details_by_circle_code(self.products, product_code_value)

\* ProductValidation.validate (the second definition, which replaces the
\* first).  A found product is a pandas Series, and `not self.product` on a
\* Series raises ValueError (a Series has no truth value), so the vintage
\* checks that follow the test are never reached.
product_vintage_validate(self) ==
    LET vintage_str == Get(self.circle_values, "C11")
        product == find_product(self)
    IN IF ~Truthy(vintage_str) THEN Passed(self, {})
       ELSE IF ~product.found THEN Passed(self, {})
       ELSE Raised(self, "ValueError", {})


\* -------------------------------------------------------------- registry
\* VALIDATION_CLASSES: the rule kinds the registry knows.
VALIDATION_CLASSES ==
    {"in_database", "in_database_combination", "forbidden_value", "duplicate_value",
     "single_value", "casket_value", "dependency", "excluded_combinations",
     "match_value", "product_vintage"}

\* validator = validation_class(...); error = validator.validate()
run_rule(self) ==
    CASE self.rule.type = "in_database" -> in_database_validate(self)
      [] self.rule.type = "in_database_combination" -> in_database_combination_validate(self)
      [] self.rule.type = "forbidden_value" -> forbidden_value_validate(self)
      [] self.rule.type = "duplicate_value" -> duplicate_value_validate(self)
      [] self.rule.type = "single_value" -> single_value_validate(self)
      [] self.rule.type = "casket_value" -> casket_value_validate(self)
      [] self.rule.type = "dependency" -> dependency_validate(self)
      [] self.rule.type = "excluded_combinations" -> excluded_combinations_validate(self)
      [] self.rule.type = "match_value" -> match_value_validate(self)
      [] self.rule.type = "product_vintage" -> product_vintage_validate(self)

\* ------------------------------------------------------- version resolvers
\* The version token a resolver returns: None, or an object holding the C0
\* value it was given.
NoVersion == [k |-> "none", value |-> None]
VersionOf(c0_value) == [k |-> "obj", value |-> c0_value]

\* The injected version_lookup: "default" is the constructor's fallback
\* (lambda v: None), "test" the resolver of test_validations.py and
\* "order_management" the one of src/order_management.py.
Resolvers == {"default", "test", "order_management"}
version_lookup_result(resolver, c0_value) ==
    CASE resolver = "default" -> NoVersion
      [] resolver = "test" -> VersionOf(c0_value)
      [] resolver = "order_management" ->
            IF Truthy(c0_value) THEN VersionOf(c0_value) ELSE NoVersion

\* ----------------------------------------------------------------- state
VARIABLES
    circle_values,          \* self.circle_values: the record, code -> value
    config,                 \* self.config: <<[code, validations]>> in stored order
    version_lookup,         \* self.version_lookup (a member of Resolvers)
    allowed_values_lookup,  \* self.allowed_values_lookup (a member of Lookups)
    products,               \* the product master data (a member of ProductData)
    pc,                     \* "new" before __init__, "ready" after it
    version,                \* self.version
    errors,                 \* self.errors: <<[code, msgs]>> in insertion order
    resolver_calls,         \* the arguments version_lookup was called with
    lookup_calls,           \* the (code, version) pairs allowed_values_lookup was called with
    ran,                    \* the rule invocations of the last validate() call
    errors_before,          \* self.errors as the last validate() call found it
    results,                \* what each validate() call gave its caller
    document,               \* the validation-config document at CONFIG_PATH
    circle_config_json_content,  \* order_management._circle_config_json_content
    orders,                 \* the Orders table of orders.db: cle -> row
    last_call,              \* the last order-management call and what it gave
    api_orders,             \* the orders table of circle_orders.db: cle -> row
    order_history,          \* the order_history table, in history_id order
    response                \* the last request to the HTTP API and its response

service_vars == <<circle_values, config, version_lookup, allowed_values_lookup, products,
                  pc, version, errors, resolver_calls, lookup_calls, ran, errors_before,
                  results>>
order_vars == <<document, circle_config_json_content, orders, last_call>>
api_vars == <<api_orders, order_history, response>>
vars == <<service_vars, order_vars, api_vars>>

\* ------------------------------------------------------------- the service
\* self.errors.setdefault(code, []).append(error)
setdefault_append(errs, code, error) ==
    IF \E i \in DOMAIN errs : errs[i].code = code
    THEN [i \in DOMAIN errs |->
            IF errs[i].code = code
            THEN [code |-> code, msgs |-> Append(errs[i].msgs, error)]
            ELSE errs[i]]
    ELSE Append(errs, [code |-> code, msgs |-> <<error>>])

\* a validate that skips no field: rules run on absent and null fields too
skip_field_never(value) == FALSE

\* `if value is None: continue`
skip_field(value) == value = None

\* a validate that gives up the field's rule list at an unknown kind
stop_at_unknown(rules, j) == Len(rules) + 1

\* `if not validation_class: continue`: the rule to go on with after the
\* j-th, whose kind the registry does not know
next_after_unknown(rules, j) == j + 1

\* a validate that builds its rules without the resolved version
rule_version_unresolved(self_version) == NoVersion

\* `version=self.version`: the version a rule is built with
rule_version(self_version) == self_version

\* The rule object built for the j-th rule of a field (lines 25-32).
validator(svc, code, rule, record) ==
    [code |-> code,
     value |-> Get(record, code),
     rule |-> rule,
     version |-> rule_version(svc.version),
     circle_values |-> record,
     allowed_values_lookup |-> svc.allowed_values_lookup,
     products |-> svc.products]

\* One invocation as the run's log keeps it.
invocation(self, j, out) ==
    [code |-> self.code, j |-> j, rule |-> self.rule, value |-> self.value,
     c2 |-> Get(self.circle_values, "C2"), kind |-> out.kind, msg |-> out.msg,
     calls |-> out.calls]

\* a validate that files what every rule returned, None included
record_error_unconditional(errs, code, out) == setdefault_append(errs, code, out.msg)

\* `if error: self.errors.setdefault(code, []).append(error)`
record_error(errs, code, out) ==
    IF out.kind = "error" THEN setdefault_append(errs, code, out.msg) ELSE errs

\* The loop over the rules of one field from the j-th on.  acc holds
\* self.errors, the invocations and lookups made, the record, and whether a
\* rule raised (which ends the run).
RECURSIVE run_rules(_, _, _, _, _)
after_rule(svc, code, rules, j, acc, self, out) ==
    IF out.kind = "raise"
    THEN [errors |-> acc.errors, ran |-> Append(acc.ran, invocation(self, j, out)),
          calls |-> acc.calls \cup out.calls, raised |-> TRUE, cv |-> out.cv]
    ELSE run_rules(svc, code, rules, j + 1,
                   [errors |-> record_error(acc.errors, code, out),
                    ran |-> Append(acc.ran, invocation(self, j, out)),
                    calls |-> acc.calls \cup out.calls, raised |-> FALSE, cv |-> out.cv])
run_rules(svc, code, rules, j, acc) ==
    IF j > Len(rules) THEN acc
    ELSE IF rules[j].type \notin VALIDATION_CLASSES
    THEN run_rules(svc, code, rules, next_after_unknown(rules, j), acc)
    ELSE after_rule(svc, code, rules, j, acc,
                    validator(svc, code, rules[j], acc.cv),
                    run_rule(validator(svc, code, rules[j], acc.cv)))

\* The loop over the config's field codes from the i-th on.
RECURSIVE run_fields(_, _, _)
run_fields(svc, i, acc) ==
    IF i > Len(svc.config) \/ acc.raised THEN acc
    ELSE IF skip_field(Get(acc.cv, svc.config[i].code)) THEN run_fields(svc, i + 1, acc)
    ELSE run_fields(svc, i + 1,
                    run_rules(svc, svc.config[i].code, svc.config[i].validations, 1, acc))

\* validate() with the given config, self.errors and record
validate_with(cfg, errs, record) ==
    run_fields([config |-> cfg, version |-> version,
                allowed_values_lookup |-> allowed_values_lookup, products |-> products],
               1,
               [errors |-> errs, ran |-> <<>>, calls |-> {}, raised |-> FALSE,
                cv |-> record])

\* CircleValidatorService.validate on the service as it stands
validate_run == validate_with(config, errors, circle_values)

\* CircleValidatorService.__init__: the resolver is called once, with
\* circle_values.get("C0")
resolve_version(resolver, record) ==
    [calls |-> <<Get(record, "C0")>>,
     version |-> version_lookup_result(resolver, Get(record, "C0"))]


\* ---------------------------------------------------------------- inputs
\* A record from the values given for its codes; Absent leaves the code out.
Absent == [k |-> "absent", s |-> "", items |-> <<>>]
Record(f) == [c \in {d \in DOMAIN f : f[d] # Absent} |-> f[c]]
Fields(c0, c1, c2, c10, c11, c21, c38) ==
    Record([C0 |-> c0, C1 |-> c1, C2 |-> c2, C10 |-> c10, C11 |-> c11,
            C21 |-> c21, C38 |-> c38])

Entry(code, rules) == [code |-> code, validations |-> rules]

\* flat lists of the given scalars
FlatLists(atoms) == {L(xs) : xs \in SeqsUpTo(atoms, MaxLen)}

\* The rule specifications of the model's configs.
RSingle == Rule("single_value")
RDuplicate == Rule("duplicate_value")
RInDatabase == Rule("in_database")
RForbidden == [Rule("forbidden_value") EXCEPT !.forbidden_values = <<"A0">>]
RForbiddenTwo == [Rule("forbidden_value") EXCEPT !.forbidden_values = <<"A0", "A2">>]
RFuture == Rule("future_rule")
RCasketLength == [Rule("casket_value") EXCEPT !.match_array_length = TRUE]
RCasketAllowed == [Rule("casket_value") EXCEPT !.allowed_values = <<"A2">>]
RDependency == [Rule("dependency") EXCEPT !.source_code = "C1", !.source_value = "A0",
                                          !.target_value = "A2"]
RExcluded == [Rule("excluded_combinations") EXCEPT
                 !.excluded_combinations = <<<<"A0", "/A[0-9]/">>, <<"A2", "A2">>>>]
RExcludedRegexFirst == [Rule("excluded_combinations") EXCEPT
                           !.excluded_combinations = <<<<"/A[0-9]/", "A0">>>>]
RMatch == [Rule("match_value") EXCEPT !.pattern = "https://"]
RProduct == Rule("product_vintage")
RCombination(mode, codes) ==
    [Rule("in_database_combination") EXCEPT !.combinaison_mode = mode,
                                            !.combination_codes = codes]

\* Orchestration: two configured fields, every list of up to MaxRules rules
\* on the first, each field present, null or absent.
OrchestrationRules == {RSingle, RDuplicate, RInDatabase, RForbidden, RFuture}
OrchestrationInputs ==
    {[cv |-> Fields(S("11"), S("A0"), Absent, Absent, Absent, c21, c38),
      config |-> <<Entry("C21", rs1), Entry("C38", rs2)>>,
      version_lookup |-> "test", allowed_values_lookup |-> lk, products |-> "loaded"] :
        rs1 \in SeqsUpTo(OrchestrationRules, MaxRules),
        rs2 \in {<<RSingle>>, <<RFuture, RInDatabase>>},
        c21 \in {Absent, None, S("A0"), L(<<S("A2"), S("A0")>>), L(<<S("A0"), S("A0")>>),
                 L(<<L(<<S("A0")>>), L(<<S("A0")>>)>>)},
        c38 \in {Absent, L(<<S("A1"), S("A0")>>)},
        lk \in {"fake_db", "failing"}}

\* Versions: every resolver and lookup, with C0 present, empty, null or absent.
VersionInputs ==
    {[cv |-> Fields(c0, S("A0"), Absent, Absent, Absent, c21, Absent),
      config |-> <<Entry("C21", <<r>>)>>,
      version_lookup |-> vl, allowed_values_lookup |-> lk, products |-> "loaded"] :
        c0 \in {Absent, None, S(""), S("11")},
        vl \in Resolvers, lk \in Lookups,
        r \in {RInDatabase, RSingle, RCombination("single_code", <<"C1", "C2">>)},
        c21 \in {S("A2"), L(<<S("A0"), S("6")>>)}}

\* Rules: each rule kind alone on one field, over scalar, flat and nested
\* values, with the casket field "00", another scalar, a list or absent.
RuleValues ==
    {S("A2"), S("A0"), S("00"), S("https://example.com")}
    \cup FlatLists({S("A2"), S("A0")})
    \cup {L(<<L(<<S("A2")>>)>>), L(<<L(<<S("A0")>>), L(<<S("A0")>>)>>),
          L(<<S("A2"), L(<<S("A0")>>)>>), L(<<S("A2"), S("A0"), S("A2")>>)}
RuleKinds ==
    {RSingle, RDuplicate, RInDatabase, RForbidden, RForbiddenTwo, RFuture, RCasketLength,
     RCasketAllowed, RDependency, RExcluded, RExcludedRegexFirst, RMatch, RProduct}
RuleInputs ==
    {[cv |-> Fields(S("11"), S("A0"), c2, Absent, Absent, c21, Absent),
      config |-> <<Entry("C21", <<r>>)>>,
      version_lookup |-> "test", allowed_values_lookup |-> "fake_db",
      products |-> "loaded"] :
        c2 \in {Absent, S("00"), S("6"), L(<<S("00"), S("00")>>)},
        c21 \in RuleValues, r \in RuleKinds}

\* Dependencies: the dependency rule with its source field absent, null,
\* holding the source value or not, as a scalar or in a list.
DependencyInputs ==
    {[cv |-> Fields(S("11"), c1, Absent, Absent, Absent, c21, Absent),
      config |-> <<Entry("C21", <<RDependency>>)>>,
      version_lookup |-> "test", allowed_values_lookup |-> "fake_db",
      products |-> "loaded"] :
        c1 \in {Absent, None, S("A0"), S("6"), L(<<S("6"), S("A0")>>), L(<<S("6")>>)},
        c21 \in {S("A2"), S("A0"), L(<<>>), L(<<S("A0")>>), L(<<S("A0"), S("A2")>>),
                 L(<<L(<<S("A2")>>)>>)}}

\* Combinations: in_database_combination in each mode, over values nested up
\* to three levels deep, with a lookup that answers and one that raises.
Atoms == {S("A0"), S("6")}
Level2 == {L(xs) : xs \in SeqsUpTo(Atoms \cup FlatLists(Atoms), 2)}
Level3 == {L(<<x>>) : x \in Level2}
CombinationValues == {S("00"), S("A0")} \cup Level2 \cup Level3
CombinationInputs ==
    {[cv |-> Fields(S("11"), S("A0"), Absent, Absent, Absent, c21, Absent),
      config |-> <<Entry("C21", <<RCombination(mode, codes)>>)>>,
      version_lookup |-> "test", allowed_values_lookup |-> lk,
      products |-> "loaded"] :
        mode \in {"combined_codes", "single_code", "other"},
        codes \in {<<"C1">>, <<"C1", "C2">>},
        c21 \in CombinationValues,
        lk \in {"fake_db", "failing"}}

\* Products: the product rule with the product code and the vintage present,
\* empty or absent, the product known or not, the master data loaded or not.
ProductInputs ==
    {[cv |-> Fields(S("11"), S("A0"), Absent, c10, c11, S("A2"), Absent),
      config |-> cfg,
      version_lookup |-> "test", allowed_values_lookup |-> "fake_db",
      products |-> pd] :
        c10 \in {Absent, S(""), S("1111A0"), S("XX")},
        c11 \in {Absent, S(""), S("2019"), S("2020")},
        cfg \in {<<Entry("C21", <<RProduct>>)>>,
                 <<Entry("C11", <<RProduct, RInDatabase>>), Entry("C21", <<RInDatabase>>)>>},
        pd \in ProductData}

\* ------------------------------------------------------- order management
\* json.dumps and json.loads over the values of a record: a str is a JSON
\* string, a list a JSON array, None is null.
RECURSIVE to_json(_)
to_json(v) ==
    IF IsList(v)
    THEN [t |-> "array", s |-> "", items |-> [i \in DOMAIN v.items |-> to_json(v.items[i])]]
    ELSE IF IsStr(v) THEN [t |-> "string", s |-> v.s, items |-> <<>>]
    ELSE [t |-> "null", s |-> "", items |-> <<>>]
RECURSIVE from_json(_)
from_json(j) ==
    IF j.t = "array" THEN L([i \in DOMAIN j.items |-> from_json(j.items[i])])
    ELSE IF j.t = "string" THEN S(j.s)
    ELSE None
json_dumps(d) == [c \in DOMAIN d |-> to_json(d[c])]
json_loads(text) == [c \in DOMAIN text |-> from_json(text[c])]

\* The text of a validation-config document: a JSON object holding the
\* config's entries, or JSON of another shape (an array, say).  "{}" is the
\* object without entries.
JsonObject(entries) == [k |-> "text", is_object |-> TRUE, entries |-> entries]
JsonArray == [k |-> "text", is_object |-> FALSE, entries |-> <<>>]
EmptyJson == JsonObject(<<>>)
NotLoaded == [k |-> "none", is_object |-> FALSE, entries |-> <<>>]

\* The document at CONFIG_PATH: there is no such file, it cannot be read
\* (read_text raises something else than FileNotFoundError), it does not
\* parse as JSON, or it parses and `text` is what it holds.
Document(state, text) == [state |-> state, text |-> text]
Malformed == {Document("missing", NotLoaded), Document("unreadable", NotLoaded),
              Document("invalid_json", NotLoaded)}

\* a load that falls back on a built-in config when the document fails
load_circle_config_builtin_rules(content, doc) ==
    IF content # NotLoaded THEN content
    ELSE IF doc.state = "parsed" THEN doc.text
    ELSE JsonObject(<<Entry("C1", <<RInDatabase>>)>>)

\* load_circle_config: the cached content when there is one, else the
\* document's text, or "{}" when reading or parsing it raised.  What it
\* returns is also what the cache holds afterwards.
load_circle_config(content, doc) ==
    IF content # NotLoaded THEN content
    ELSE IF doc.state = "parsed" THEN doc.text
    ELSE EmptyJson

\* src/order_management.py generate_cle.  The key string is the truthy values
\* of C0, C1, C10 and C11 as text, sorted and joined: it keeps which texts
\* occur and how often, not which field held which.  The SHA-256 prefix is
\* taken as faithful to the key string.  Without key fields the CLE is a
\* random uuid4.
KeyFieldCodes == {"C0", "C1", "C10", "C11"}
key_fields(data) == {f \in KeyFieldCodes : Truthy(Get(data, f))}
key_string(data) ==
    {<<Str(data[f]), Cardinality({g \in key_fields(data) : Str(data[g]) = Str(data[f])})>> :
        f \in key_fields(data)}
Cle(kind, key, id) == [kind |-> kind, key |-> key, id |-> id]
generate_cle(data, uuid) ==
    IF key_fields(data) = {} THEN Cle("uuid", {}, uuid)
    ELSE Cle("CLE", key_string(data), "")

\* One row of the Orders table (the timestamps are left out).
OrderRow(holder, status, creator, modifier, data) ==
    [current_holder |-> holder, status |-> status, created_by |-> creator,
     last_modified_by |-> modifier, circle_data |-> json_dumps(data)]

\* an insert that replaces the row of an existing CLE
database_create_order_replacing(table, cle, initial_data, creator, holder, status) ==
    [returned |-> "cle",
     orders |-> [c \in DOMAIN table \cup {cle} |->
                   IF c = cle THEN OrderRow(holder, status, creator, creator, initial_data)
                   ELSE table[c]]]

\* database.create_order: the insert fails on an existing primary key
\* (IntegrityError) and None is returned; else the row is stored and the
\* CLE returned.
database_create_order(table, cle, initial_data, creator, holder, status) ==
    IF cle \in DOMAIN table THEN [returned |-> "None", orders |-> table]
    ELSE [returned |-> "cle",
          orders |-> [c \in DOMAIN table \cup {cle} |->
                        IF c = cle THEN OrderRow(holder, status, creator, creator, initial_data)
                        ELSE table[c]]]

\* database.get_order_by_cle: the row with its circle_data parsed
get_order_by_cle(table, cle) ==
    [current_holder |-> table[cle].current_holder, status |-> table[cle].status,
     created_by |-> table[cle].created_by,
     last_modified_by |-> table[cle].last_modified_by,
     circle_data |-> json_loads(table[cle].circle_data)]

\* database.update_order_data: False when no row has the CLE (rowcount 0)
database_update_order_data(table, cle, new_data, modifier) ==
    IF cle \notin DOMAIN table THEN [returned |-> "False", orders |-> table]
    ELSE [returned |-> "True",
          orders |-> [table EXCEPT ![cle].circle_data = json_dumps(new_data),
                                   ![cle].last_modified_by = modifier]]

\* The validate() of the service create_new_order builds (lines 113-119):
\* json.loads of the content, the module's own lookups, a fresh self.errors.
\* A content that is not a JSON object has no items(): AttributeError.
order_validation(content, data) ==
    IF ~content.is_object
    THEN [errors |-> <<>>, ran |-> <<>>, calls |-> {}, raised |-> TRUE, cv |-> data]
    ELSE run_fields([config |-> content.entries,
                     version |-> resolve_version("order_management", data).version,
                     allowed_values_lookup |-> "order_management",
                     products |-> "loaded"],
                    1,
                    [errors |-> <<>>, ran |-> <<>>, calls |-> {}, raised |-> FALSE,
                     cv |-> data])

\* a create_new_order that stores the record whatever validation found
errors_block_never(errs) == FALSE

\* `if errors: ... return None`
errors_block(errs) == errs # <<>>

\* What create_new_order gives once validate() has run: the exception goes
\* to the caller, errors give None, else the CLE is generated and inserted.
create_after_validation(table, data, creator_id, broker_id, uuid, run) ==
    IF run.raised
    THEN [returned |-> "raised", valid |-> "raised", cle |-> Cle("none", {}, ""),
          orders |-> table]
    ELSE IF errors_block(run.errors)
    THEN [returned |-> "None", valid |-> "errors", cle |-> Cle("none", {}, ""),
          orders |-> table]
    ELSE [returned |-> database_create_order(table, generate_cle(data, uuid), data,
                                             creator_id, broker_id, "new_draft").returned,
          valid |-> "no_errors", cle |-> generate_cle(data, uuid),
          orders |-> database_create_order(table, generate_cle(data, uuid), data,
                                           creator_id, broker_id, "new_draft").orders]

\* src/order_management.py create_new_order
create_new_order(content, doc, table, initial_order_data, creator_id, broker_id, uuid) ==
    create_after_validation(table, initial_order_data, creator_id, broker_id, uuid,
        order_validation(load_circle_config(content, doc), initial_order_data))

\* src/order_management.py update_order_details.  Line 160 builds the
\* service with the keyword config_json_path, which
\* CircleValidatorService.__init__ does not take: the call raises TypeError
\* and nothing after it runs (lines 167-185: the validation under the loaded
\* config, then database.update_order_data).
ConstructorKeywords ==
    {"circle_values", "config_json", "version_lookup", "allowed_values_lookup"}
update_after_validation(table, cle, new_order_data, modifier_id, run) ==
    IF run.raised THEN [returned |-> "raised", orders |-> table]
    ELSE IF errors_block(run.errors) THEN [returned |-> "False", orders |-> table]
    ELSE database_update_order_data(table, cle, new_order_data, modifier_id)
update_order_details(content, doc, table, cle, new_order_data, modifier_id) ==
    IF "config_json_path" \notin ConstructorKeywords
    THEN [returned |-> "raised", orders |-> table]
    ELSE update_after_validation(table, cle, new_order_data, modifier_id,
             order_validation(load_circle_config(content, doc), new_order_data))

\* The inputs of the order management model.
\* rows the Orders table holds at most
MaxOrders == 2
NoCle == Cle("none", {}, "")
NoCall ==
    [op |-> "none", cle |-> NoCle, data |-> <<>>, creator |-> "", holder |-> "",
     status |-> "", valid |-> "", returned |-> ""]
OrderConfig == <<Entry("C1", <<RInDatabase>>), Entry("C21", <<RDuplicate>>)>>
OrderDocuments ==
    Malformed \cup {Document("parsed", EmptyJson), Document("parsed", JsonArray),
                    Document("parsed", JsonObject(OrderConfig))}
SampleOrder ==
    Fields(S("11"), S("A0"), Absent, S("PRODUCT_A"), S("2022"), Absent, Absent)
OrderRecords ==
    {SampleOrder,
     Fields(S("11"), S("A0"), Absent, S("PRODUCT_A"), S("2022"), S("A2"), Absent),
     Fields(S("A0"), S("11"), Absent, S("PRODUCT_A"), S("2022"), Absent, Absent),
     Fields(S("11"), S("B0"), Absent, Absent, None, L(<<L(<<S("A0")>>)>>), Absent),
     Fields(Absent, Absent, Absent, S(""), Absent, S("A2"), Absent)}
UpdatedOrder ==
    Fields(S("11"), S("A0"), Absent, S("PRODUCT_A"), S("2023"), Absent, Absent)
Uuids == {"uuid-1"}
Users == {"alice", "bob"}
Brokers == {"prime_wines"}
LiteralCles == {Cle("literal", {}, "ORDER123")}

\* The service's variables, unused by the order management and the HTTP API.
ServiceIdle ==
    /\ circle_values = <<>>
    /\ config = <<>>
    /\ version_lookup = "default"
    /\ allowed_values_lookup = "default"
    /\ products = "loaded"
    /\ pc = "none"
    /\ version = NoVersion
    /\ errors = <<>>
    /\ resolver_calls = <<>>
    /\ lookup_calls = {}
    /\ ran = <<>>
    /\ errors_before = <<>>
    /\ results = <<>>

\* The order management before its first call: no config loaded, an
\* initialised and empty Orders table.
OrdersIdle ==
    /\ document = Document("missing", NotLoaded)
    /\ circle_config_json_content = NotLoaded
    /\ orders = <<>>
    /\ last_call = NoCall

\* The HTTP API before its first request: empty tables.
NoResponse ==
    [method |-> "", cle |-> NoCle, body |-> <<>>, status_code |-> 0]
ApiIdle ==
    /\ api_orders = <<>>
    /\ order_history = <<>>
    /\ response = NoResponse

\* --------------------------------------------------------------- actions
\* Before construction: the caller holds a record, a config and the lookups.
Start(inp) ==
    /\ circle_values = inp.cv
    /\ config = inp.config
    /\ version_lookup = inp.version_lookup
    /\ allowed_values_lookup = inp.allowed_values_lookup
    /\ products = inp.products
    /\ pc = "new"
    /\ version = NoVersion
    /\ errors = <<>>
    /\ resolver_calls = <<>>
    /\ lookup_calls = {}
    /\ ran = <<>>
    /\ errors_before = <<>>
    /\ results = <<>>
    /\ OrdersIdle
    /\ ApiIdle

Init ==
    \/ \E inp \in OrchestrationInputs : Start(inp)
    \/ \E inp \in VersionInputs : Start(inp)
    \/ \E inp \in RuleInputs : Start(inp)
    \/ \E inp \in CombinationInputs : Start(inp)
    \/ \E inp \in ProductInputs : Start(inp)
    \/ \E inp \in DependencyInputs : Start(inp)

\* self.errors = {}
new_errors == <<>>

\* CircleValidatorService(circle_values, config_json, version_lookup, allowed_values_lookup)
Constructed(r) ==
    /\ version' = r.version
    /\ resolver_calls' = resolver_calls \o r.calls
    /\ errors' = new_errors
    /\ pc' = "ready"
    /\ UNCHANGED <<circle_values, config, version_lookup, allowed_values_lookup, products,
                   lookup_calls, ran, errors_before, results, order_vars, api_vars>>

Construct ==
    /\ pc = "new"
    /\ Constructed(resolve_version(version_lookup, circle_values))

\* The state a validate() call leaves, given what the run did: it returns
\* self.errors, or a rule raised and the caller gets no result (self.errors
\* keeps what the run had appended).
Ran(run) ==
    /\ errors' = run.errors
    /\ circle_values' = run.cv
    /\ lookup_calls' = lookup_calls \cup run.calls
    /\ ran' = run.ran
    /\ errors_before' = errors
    /\ results' = Append(results,
                         IF run.raised THEN [outcome |-> "raised", errors |-> <<>>]
                         ELSE [outcome |-> "returned", errors |-> run.errors])
    /\ UNCHANGED <<config, version_lookup, allowed_values_lookup, products, pc, version,
                   resolver_calls, order_vars, api_vars>>

\* validate() returns self.errors
Validate ==
    /\ pc = "ready"
    /\ Len(results) < MaxCalls
    /\ ~validate_run.raised
    /\ Ran(validate_run)

\* validate() raises
ValidateRaises ==
    /\ pc = "ready"
    /\ Len(results) < MaxCalls
    /\ validate_run.raised
    /\ Ran(validate_run)

Next == Construct \/ Validate \/ ValidateRaises

Spec == Init /\ [][Next]_vars


\* ------------------------------------------- order management: actions
\* A process of the order management: the document found at CONFIG_PATH,
\* nothing loaded yet, the Orders table initialised and empty.
InitOrders ==
    /\ ServiceIdle
    /\ ApiIdle
    /\ document \in OrderDocuments
    /\ circle_config_json_content = NotLoaded
    /\ orders = <<>>
    /\ last_call = NoCall

Call(op, cle, data, creator, holder, status, valid, returned) ==
    [op |-> op, cle |-> cle, data |-> data, creator |-> creator, holder |-> holder,
     status |-> status, valid |-> valid, returned |-> returned]

\* load_circle_config()
LoadCircleConfig ==
    /\ circle_config_json_content' = load_circle_config(circle_config_json_content, document)
    /\ last_call' = Call("load_circle_config", NoCle, <<>>, "", "", "", "", "content")
    /\ UNCHANGED <<document, orders, service_vars, api_vars>>

\* The state a create_new_order call leaves.
Created(data, creator_id, broker_id, out) ==
    /\ Cardinality(DOMAIN out.orders) <= MaxOrders
    /\ circle_config_json_content' = load_circle_config(circle_config_json_content, document)
    /\ orders' = out.orders
    /\ last_call' = Call("create_new_order", out.cle, data, creator_id, broker_id,
                         "new_draft", out.valid, out.returned)
    /\ UNCHANGED <<document, service_vars, api_vars>>

\* create_new_order(initial_order_data, creator_id, broker_id); uuid is what
\* uuid4 would give, a CLE no stored order has.
CreateNewOrder ==
    \E data \in OrderRecords, creator_id \in Users, broker_id \in Brokers, uuid \in Uuids :
        /\ Cle("uuid", {}, uuid) \notin DOMAIN orders
        /\ Created(data, creator_id, broker_id,
                   create_new_order(circle_config_json_content, document, orders, data,
                                    creator_id, broker_id, uuid))

\* update_order_details(cle, new_order_data, modifier_id)
UpdateOrderDetails ==
    \E cle \in DOMAIN orders \cup LiteralCles, data \in OrderRecords, modifier_id \in Users :
        /\ orders' = update_order_details(circle_config_json_content, document, orders,
                                          cle, data, modifier_id).orders
        /\ last_call' = Call("update_order_details", cle, data, modifier_id, "", "", "",
                             update_order_details(circle_config_json_content, document,
                                                  orders, cle, data, modifier_id).returned)
        /\ UNCHANGED <<document, circle_config_json_content, service_vars, api_vars>>

\* The state a database.create_order call leaves.
Inserted(cle, data, creator, holder, status, out) ==
    /\ Cardinality(DOMAIN out.orders) <= MaxOrders
    /\ orders' = out.orders
    /\ last_call' = Call("database.create_order", cle, data, creator, holder, status, "",
                         out.returned)
    /\ UNCHANGED <<document, circle_config_json_content, service_vars, api_vars>>

\* database.create_order(cle, initial_data, creator, holder, status), called
\* directly (as database.py's own test does), with a CLE of the caller's.
DatabaseCreateOrder ==
    \E cle \in LiteralCles \cup {generate_cle(SampleOrder, "")},
       data \in {<<>>} :
        Inserted(cle, data, "broker_x", "castle_y", "draft",
                 database_create_order(orders, cle, data, "broker_x", "castle_y", "draft"))

\* database.update_order_data(cle, new_data, modifier), called directly
DatabaseUpdateOrderData ==
    \E cle \in DOMAIN orders \cup LiteralCles, data \in {UpdatedOrder} :
        /\ orders' = database_update_order_data(orders, cle, data, "system").orders
        /\ last_call' = Call("database.update_order_data", cle, data, "system", "", "", "",
                             database_update_order_data(orders, cle, data, "system").returned)
        /\ UNCHANGED <<document, circle_config_json_content, service_vars, api_vars>>

NextOrders ==
    \/ LoadCircleConfig
    \/ CreateNewOrder
    \/ UpdateOrderDetails
    \/ DatabaseCreateOrder
    \/ DatabaseUpdateOrderData

SpecOrders == InitOrders /\ [][NextOrders]_vars


\* ------------------------------------------------------------ the HTTP API
\* The names main_api.py binds at module level before its handlers run
\* (lines 1-11 and its own definitions).
ApiModuleNames ==
    {"datetime", "json", "hashlib", "FastAPI", "HTTPException", "Depends", "Session",
     "joinedload", "IntegrityError", "BaseModel", "Field", "Dict", "Any", "List",
     "Base", "Order", "OrderHistory", "engine", "DATABASE_URL", "app", "get_db",
     "generate_cle", "create_order", "get_order", "update_order", "get_orders_for_actor"}

\* get_db (lines 19-24), the dependency of every handler: it calls
\* sessionmaker, a name the module never imports, so entering it raises
\* NameError and the request is answered 500 before the handler runs.
get_db == IF "sessionmaker" \in ApiModuleNames THEN "session" ELSE "NameError"

\* main_api.generate_cle: the SHA-256 of C10|C11|sender|receiver|timestamp
api_generate_cle(c10, c11, sender_id, receiver_id, timestamp) ==
    Cle("sha256", {<<c10, c11, sender_id, receiver_id, timestamp>>}, "")

\* lines 99-103: the circle_data with C10 and C11 of the dedicated fields,
\* and C0 = "11" when it has none
full_circle_data(circle_data, c10, c11) ==
    [c \in DOMAIN circle_data \cup {"C10", "C11", "C0"} |->
        IF c = "C10" THEN S(c10)
        ELSE IF c = "C11" THEN S(c11)
        ELSE IF c \in DOMAIN circle_data THEN circle_data[c]
        ELSE S("11")]

ApiOrder(data, current_actor, status, sender, receiver) ==
    [data |-> json_dumps(data), current_actor |-> current_actor, status |-> status,
     sender |-> sender, receiver |-> receiver]
HistoryEntry(cle, actor, action, changed_data) ==
    [cle |-> cle, actor |-> actor, action |-> action,
     changed_data |-> json_dumps(changed_data)]

\* What a request leaves: the two tables and the status code of the answer.
Answer(status_code, table, history) ==
    [status_code |-> status_code, orders |-> table, history |-> history]

\* POST /order (create_order, lines 91-143): the order row and its "Created"
\* history entry are added and committed together; an existing CLE is a 409.
api_create_order(table, history, input, timestamp, cle) ==
    IF get_db # "session" THEN Answer(500, table, history)
    ELSE IF cle \in DOMAIN table THEN Answer(409, table, history)
    ELSE Answer(201,
                [c \in DOMAIN table \cup {cle} |->
                    IF c = cle
                    THEN ApiOrder(full_circle_data(input.circle_data, input.C10, input.C11),
                                  input.receiver_id, "New", input.sender_id,
                                  input.receiver_id)
                    ELSE table[c]],
                Append(history,
                       HistoryEntry(cle, input.sender_id, "Created",
                                    full_circle_data(input.circle_data, input.C10,
                                                     input.C11))))

\* PUT /order/{cle} (update_order, lines 183-228): 404 for an unknown CLE,
\* else the row is rewritten and a history entry added in the same commit.
api_update_order(table, history, cle, update_data) ==
    IF get_db # "session" THEN Answer(500, table, history)
    ELSE IF cle \notin DOMAIN table THEN Answer(404, table, history)
    ELSE Answer(200,
                [table EXCEPT ![cle] =
                    ApiOrder(update_data.updated_data, update_data.new_current_actor,
                             update_data.new_status, update_data.sender_id,
                             update_data.new_current_actor)],
                Append(history,
                       HistoryEntry(cle, update_data.sender_id,
                                    update_data.action_description,
                                    update_data.updated_data)))

\* The requests of the model.
Actors == {"broker_1", "castle_1"}
CreateRequests ==
    {[C10 |-> "PRODUCT_A", C11 |-> c11, circle_data |-> d, sender_id |-> s,
      receiver_id |-> r] :
        c11 \in {"2021", "2022", "2023"},
        d \in {<<>>, SampleOrder, UpdatedOrder},
        s \in Actors, r \in Actors}
UpdateRequests ==
    {[updated_data |-> d, sender_id |-> s, new_current_actor |-> a, new_status |-> st,
      action_description |-> act] :
        d \in {<<>>, SampleOrder, UpdatedOrder},
        s \in Actors, a \in Actors, st \in {"AmendedByCastle", "Accepted"},
        act \in {"Castle Amended Fields", "Created"}}
Instants == {"t1", "t2"}
UnknownCles == {Cle("literal", {}, "unknown-1"), Cle("literal", {}, "unknown-2")}

\* A process of the HTTP API: the tables created and empty.
InitApi ==
    /\ ServiceIdle
    /\ OrdersIdle
    /\ ApiIdle

Answered(method, cle, body, out) ==
    /\ api_orders' = out.orders
    /\ order_history' = out.history
    /\ response' = [method |-> method, cle |-> cle, body |-> body,
                    status_code |-> out.status_code]
    /\ UNCHANGED <<service_vars, order_vars>>

\* a POST /order request
ApiCreateOrder ==
    \E input \in CreateRequests, timestamp \in Instants :
        Answered("POST", NoCle, input,
                 api_create_order(api_orders, order_history, input, timestamp,
                                  api_generate_cle(input.C10, input.C11, input.sender_id,
                                                   input.receiver_id, timestamp)))

\* a PUT /order/{cle} request
ApiUpdateOrder ==
    \E cle \in DOMAIN api_orders \cup UnknownCles, update_data \in UpdateRequests :
        Answered("PUT", cle, update_data,
                 api_update_order(api_orders, order_history, cle, update_data))

NextApi == ApiCreateOrder \/ ApiUpdateOrder

SpecApi == InitApi /\ [][NextApi]_vars


\* ---------------------------------------------------------------- claims
Called == Len(results) > 0
LastResult == results[Len(results)]
Returned == Called /\ LastResult.outcome = "returned"

\* a dict's keys and the list under a key (empty when the key is absent)
Keys(errs) == {errs[i].code : i \in DOMAIN errs}
RECURSIVE MsgsFrom(_, _, _)
MsgsFrom(errs, code, i) ==
    IF i > Len(errs) THEN <<>>
    ELSE (IF errs[i].code = code THEN errs[i].msgs ELSE <<>>) \o MsgsFrom(errs, code, i + 1)
MsgsUnder(errs, code) == MsgsFrom(errs, code, 1)

InRecord(code) == code \in DOMAIN circle_values
Present(code) == InRecord(code) /\ circle_values[code] # None
Registered(rule) == rule.type \in VALIDATION_CLASSES

\* the members of a set of numbers in increasing order
Sorted(set) ==
    CHOOSE f \in [1..Cardinality(set) -> set] : \A a, b \in DOMAIN f : a < b => f[a] < f[b]

\* the invocations a complete run makes: for each configured code that is
\* present, in config order, its rules of a registered kind in listed order
RECURSIVE ExpectedFrom(_)
ExpectedFrom(i) ==
    IF i > Len(config) THEN <<>>
    ELSE (IF Present(config[i].code)
          THEN LET idx == Sorted({j \in DOMAIN config[i].validations :
                                     Registered(config[i].validations[j])})
               IN [k \in DOMAIN idx |-> <<config[i].code, idx[k]>>]
          ELSE <<>>) \o ExpectedFrom(i + 1)
ExpectedInvocations == ExpectedFrom(1)
Invocations == [k \in DOMAIN ran |-> <<ran[k].code, ran[k].j>>]

\* the messages of the failing invocations of the last run on a code, in order
RECURSIVE FailingFrom(_, _)
FailingFrom(code, k) ==
    IF k > Len(ran) THEN <<>>
    ELSE (IF ran[k].code = code /\ ran[k].kind = "error" THEN <<ran[k].msg>> ELSE <<>>)
         \o FailingFrom(code, k + 1)
FailingMsgs(code) == FailingFrom(code, 1)

\* C1: for every field code present in the record, validate runs every
\* configured rule of a registered kind for that code in the order listed,
\* and the error list under that code is exactly the messages of the failing
\* rules in that order (lookups that answer: a failing lookup is fatal by
\* design).
C1_EveryRuleRunsInOrder ==
    (Called /\ allowed_values_lookup # "failing") =>
        /\ Invocations = ExpectedInvocations
        /\ \A i \in DOMAIN config :
              Present(config[i].code) =>
                 MsgsUnder(errors, config[i].code) = FailingMsgs(config[i].code)

\* C2: a field code that is configured but absent from the record has no
\* rule executed and no entry in the result, whatever rules are configured.
C2_AbsentFieldSkipped ==
    Called =>
        \A i \in DOMAIN config :
            ~InRecord(config[i].code) =>
                /\ \A k \in DOMAIN ran : ran[k].code # config[i].code
                /\ config[i].code \notin Keys(errors)
                /\ config[i].code \notin Keys(LastResult.errors)

C2_Witness ==
    /\ Returned
    /\ errors # <<>>
    /\ \E i \in DOMAIN config :
          /\ ~InRecord(config[i].code)
          /\ \E j \in DOMAIN config[i].validations : Registered(config[i].validations[j])

\* the config without the rules whose kind the registry does not know
RECURSIVE KnownRules(_, _)
KnownRules(rules, j) ==
    IF j > Len(rules) THEN <<>>
    ELSE (IF Registered(rules[j]) THEN <<rules[j]>> ELSE <<>>) \o KnownRules(rules, j + 1)
Stripped(cfg) ==
    [i \in DOMAIN cfg |-> [code |-> cfg[i].code,
                           validations |-> KnownRules(cfg[i].validations, 1)]]

\* what a run did, leaving out the positions of the rules in their lists
RanRules(log) ==
    [k \in DOMAIN log |-> [code |-> log[k].code, rule |-> log[k].rule,
                           kind |-> log[k].kind, msg |-> log[k].msg]]

\* C3: a rule of an unknown kind is silently skipped: the call gives what it
\* gives on the config without the unknown rules (same errors, same outcome),
\* and the known rules before and after it run all the same.
C3_UnknownKindSkipped ==
    Called =>
        LET same == validate_with(Stripped(config), errors_before, circle_values)
        IN /\ errors = same.errors
           /\ (LastResult.outcome = "raised") = same.raised
           /\ RanRules(ran) = RanRules(same.ran)

C3_Witness ==
    /\ Returned
    /\ \E i \in DOMAIN config : \E j \in DOMAIN config[i].validations :
          /\ j > 1
          /\ ~Registered(config[i].validations[j - 1])
          /\ \E k \in DOMAIN ran :
                ran[k].code = config[i].code /\ ran[k].j = j /\ ran[k].kind = "error"

\* C4: two validation runs given the same record, config and lookups return
\* value-equal results.
C4_Deterministic ==
    \A a, b \in DOMAIN results :
        (results[a].outcome = "returned" /\ results[b].outcome = "returned")
            => results[a].errors = results[b].errors

\* the errors one run found: the messages of its failing invocations, under
\* their codes
RECURSIVE CollectFrom(_, _)
CollectFrom(k, errs) ==
    IF k > Len(ran) THEN errs
    ELSE CollectFrom(k + 1, IF ran[k].kind = "error"
                            THEN setdefault_append(errs, ran[k].code, ran[k].msg)
                            ELSE errs)
ErrorsFound == CollectFrom(1, <<>>)

\* C5: the result is created fresh per call: a validate() call returns
\* exactly the errors found in that call, each failing rule's message once.
C5_FreshResultPerCall ==
    Returned => LastResult.errors = ErrorsFound

\* C6: validate never mutates the record.
C6_RecordNotMutated == [][circle_values' = circle_values]_vars

C6_Witness ==
    /\ Returned
    /\ \E k \in DOMAIN ran :
          /\ ran[k].rule.type = "excluded_combinations"
          /\ IsList(ran[k].value)
          /\ Len(ran[k].value.items) > 1
          /\ ran[k].kind = "error"

\* C7 as stated: the resolver is applied only if C0 is present, once, and
\* every lookup of the run is passed the resolved token.
C7_ResolvedOnlyIfPresent ==
    pc = "ready" =>
        /\ resolver_calls = (IF InRecord("C0") THEN <<circle_values["C0"]>> ELSE <<>>)
        /\ \A call \in lookup_calls : call[2] = version

\* C7 as amended: the resolver is applied once, at construction, to the C0
\* value or to None when C0 is absent; validate never invokes it again, and
\* every lookup is passed the token it returned.
C7_ResolvedOnceAtConstruction ==
    pc = "ready" =>
        /\ resolver_calls = <<Get(circle_values, "C0")>>
        /\ version = version_lookup_result(version_lookup, Get(circle_values, "C0"))
        /\ \A call \in lookup_calls : call[2] = version

C7_Witness ==
    /\ Returned
    /\ ~InRecord("C0")
    /\ version # NoVersion
    /\ lookup_calls # {}

\* the invocations that need a lookup that fails or is unavailable: an
\* allowed-values check with a lookup that raises, a vintage check of a given
\* product and vintage with the product data not loaded
NeedsFailedLookup(inv) ==
    \/ inv.rule.type = "in_database" /\ allowed_values_lookup = "failing"
    \/ /\ inv.rule.type = "product_vintage"
       /\ products = "unavailable"
       /\ Truthy(Get(circle_values, "C10"))
       /\ Truthy(Get(circle_values, "C11"))

\* C8: a lookup failure is never swallowed: when a rule that needs a lookup
\* runs while that lookup raises or is unavailable, the rule raises and
\* validate returns no result.
C8_LookupFailurePropagates ==
    \A k \in DOMAIN ran :
        NeedsFailedLookup(ran[k]) => (ran[k].kind = "raise" /\ ~Returned)

\* C9: validate never throws on input data: with lookups that answer, every
\* call returns a result, and duplicate_value, forbidden_value and
\* casket_value return a pass or an error message on any value.
C9_NeverThrowsOnData ==
    (allowed_values_lookup # "failing") =>
        /\ \A a \in DOMAIN results : results[a].outcome = "returned"
        /\ \A k \in DOMAIN ran :
              ran[k].rule.type \in {"duplicate_value", "forbidden_value", "casket_value"}
                 => ran[k].kind \in {"pass", "error"}

\* a flat group or sub-group that is no list or not as long as the codes
BadEnsemble(ensemble, codes) == ~IsList(ensemble) \/ Len(ensemble.items) # Len(codes)

\* the shape mismatches of in_database_combination named by the claim
ShapeMismatch(value, rule) ==
    \/ /\ rule.combinaison_mode = "combined_codes"
       /\ \/ ~IsList(value)
          \/ \E g \in DOMAIN value.items :
                \/ ~IsList(value.items[g])
                \/ \E e \in DOMAIN ensembles_of(value.items[g]) :
                      BadEnsemble(ensembles_of(value.items[g])[e], rule.combination_codes)
    \/ /\ rule.combinaison_mode = "single_code"
       /\ BadEnsemble(value, rule.combination_codes)

\* C10 as stated: every shape mismatch yields an error message, never an
\* exception and never a pass.
C10_ShapeMismatchIsError ==
    \A k \in DOMAIN ran :
        (ran[k].rule.type = "in_database_combination" /\ ShapeMismatch(ran[k].value, ran[k].rule))
            => ran[k].kind = "error"

\* C10 as amended: every shape mismatch of a value other than the scalar
\* "00" yields an error message, as long as the allowed-values lookup answers.
C10_ShapeMismatchIsErrorUnlessNotApplicable ==
    \A k \in DOMAIN ran :
        (/\ ran[k].rule.type = "in_database_combination"
         /\ ShapeMismatch(ran[k].value, ran[k].rule)
         /\ ran[k].value # S("00")
         /\ allowed_values_lookup # "failing")
            => ran[k].kind = "error" /\ ran[k].msg # NoMsg

C10_Witness ==
    \E k \in DOMAIN ran :
        /\ ran[k].rule.type = "in_database_combination"
        /\ ran[k].rule.combinaison_mode = "combined_codes"
        /\ ran[k].rule.combination_codes = <<"C1", "C2">>
        /\ ran[k].value = L(<<L(<<L(<<S("A0"), S("6")>>), L(<<S("A0")>>)>>)>>)
        /\ ran[k].kind = "error"

\* a value that is a scalar or a sequence of scalars
FlatValue(v) == IsStr(v) \/ (IsList(v) /\ \A i \in DOMAIN v.items : IsStr(v.items[i]))

\* allowed_values_lookup(code, version) of the run
Allowed(code) == LookupValues(allowed_values_lookup, code, version)

\* the positions of the scalars of a flat value that are not allowed for a code
Offenders(value, code) ==
    {i \in DOMAIN AsList(value) : AsList(value)[i].s \notin Allowed(code)}

\* C11: in_database returns an error exactly when some scalar of the value
\* (a scalar value counted as a one-element sequence) is not in
\* allowed_values_lookup(code, version); the message names the first such
\* scalar in sequence order; otherwise the rule passes.
C11_InDatabaseFirstOffender ==
    \A k \in DOMAIN ran :
        (/\ ran[k].rule.type = "in_database"
         /\ FlatValue(ran[k].value)
         /\ allowed_values_lookup # "failing")
            => /\ ran[k].calls = {<<ran[k].code, version>>}
               /\ IF Offenders(ran[k].value, ran[k].code) = {}
                  THEN ran[k].kind = "pass"
                  ELSE /\ ran[k].kind = "error"
                       /\ ran[k].msg =
                            <<"La valeur '",
                              AsList(ran[k].value)[MinOrZero(Offenders(ran[k].value,
                                                                       ran[k].code))].s,
                              "' de ", ran[k].code, " n'existe pas en base.">>

C11_Witness ==
    \E k \in DOMAIN ran :
        /\ ran[k].rule.type = "in_database"
        /\ allowed_values_lookup = "fake_db"
        /\ ran[k].value = L(<<S("A0"), S("6")>>)
        /\ ran[k].kind = "error"

\* C12: in_database_combination passes unconditionally on the scalar "00":
\* whatever combination_codes, combinaison_mode (an unknown mode included)
\* and lookup are, the rule returns no error and consults no lookup.
C12_NotApplicablePasses ==
    \A k \in DOMAIN ran :
        (ran[k].rule.type = "in_database_combination" /\ ran[k].value = S("00"))
            => /\ ran[k].kind = "pass"
               /\ ran[k].msg = NoMsg
               /\ ran[k].calls = {}
               /\ Returned
               /\ ran[k].code \notin Keys(LastResult.errors)

C12_Witness ==
    /\ Returned
    /\ allowed_values_lookup = "failing"
    /\ \E k \in DOMAIN ran :
          /\ ran[k].rule.type = "in_database_combination"
          /\ ran[k].rule.combinaison_mode = "other"
          /\ ran[k].rule.combination_codes = <<"C1", "C2">>
          /\ ran[k].value = S("00")

\* a flat group aligned to the codes whose scalar at each position is
\* allowed for the code at that position
AlignedAllowed(g, codes) ==
    /\ IsList(g)
    /\ Len(g.items) = Len(codes)
    /\ \A i \in DOMAIN g.items :
          IsStr(g.items[i]) /\ g.items[i].s \in Allowed(codes[i])

\* a group of combined_codes mode: an aligned flat group, or a (non-empty)
\* sequence of aligned flat groups
GroupAccepted(g, codes) ==
    \/ AlignedAllowed(g, codes)
    \/ /\ IsList(g)
       /\ Len(g.items) > 0
       /\ \A s \in DOMAIN g.items : AlignedAllowed(g.items[s], codes)

\* a value of combined_codes mode: a sequence of such groups
CombinedAccepted(value, codes) ==
    IsList(value) /\ \A g \in DOMAIN value.items : GroupAccepted(value.items[g], codes)

\* C13 as stated: in combined_codes mode the rule accepts a value exactly
\* when it is a sequence of groups, each a flat sequence aligned to
\* combination_codes or a sequence of such flat groups, with every scalar
\* allowed for the code of its position; any other value yields an error.
C13_CombinedCodesExactly ==
    \A k \in DOMAIN ran :
        (/\ ran[k].rule.type = "in_database_combination"
         /\ ran[k].rule.combinaison_mode = "combined_codes"
         /\ allowed_values_lookup # "failing")
            => IF CombinedAccepted(ran[k].value, ran[k].rule.combination_codes)
               THEN ran[k].kind = "pass"
               ELSE ran[k].kind = "error"

\* C13 as amended: the same for every value other than the scalar "00",
\* which passes.
C13_CombinedCodesExactlyUnlessNotApplicable ==
    \A k \in DOMAIN ran :
        (/\ ran[k].rule.type = "in_database_combination"
         /\ ran[k].rule.combinaison_mode = "combined_codes"
         /\ allowed_values_lookup # "failing")
            => IF ran[k].value = S("00") \/ CombinedAccepted(ran[k].value,
                                                             ran[k].rule.combination_codes)
               THEN ran[k].kind = "pass" /\ ran[k].msg = NoMsg
               ELSE ran[k].kind = "error" /\ ran[k].msg # NoMsg

C13_Witness ==
    \E k \in DOMAIN ran :
        /\ ran[k].rule.type = "in_database_combination"
        /\ ran[k].rule.combinaison_mode = "combined_codes"
        /\ ran[k].rule.combination_codes = <<"C1", "C2">>
        /\ allowed_values_lookup = "fake_db"
        /\ ran[k].value = L(<<L(<<L(<<S("A0"), S("6")>>), L(<<S("A0"), S("6")>>)>>)>>)
        /\ ran[k].kind = "pass"

\* the a-th alternate of position i of a single_code value is not allowed
\* for the code of that position
AlternateRefused(value, codes, i, a) ==
    ~InStrs(AsList(value.items[i])[a], Allowed(codes[i]))

\* the positions (i, a) of the alternates of a single_code value
AlternatePositions(value) ==
    UNION {{<<i, a>> : a \in DOMAIN AsList(value.items[i])} : i \in DOMAIN value.items}

\* position order: by position, then by alternate
Earlier(p, q) == p[1] < q[1] \/ (p[1] = q[1] /\ p[2] < q[2])

\* one group aligned 1:1 to the codes
OneGroup(value, codes) == IsList(value) /\ Len(value.items) = Len(codes)

\* what single_code mode does with a value that is not the scalar "00"
SingleCodeOutcome(inv) ==
    IF ~OneGroup(inv.value, inv.rule.combination_codes)
    THEN inv.kind = "error" /\ inv.msg # NoMsg
    ELSE LET refused == {p \in AlternatePositions(inv.value) :
                            AlternateRefused(inv.value, inv.rule.combination_codes,
                                             p[1], p[2])}
         IN IF refused = {} THEN inv.kind = "pass"
            ELSE /\ inv.kind = "error"
                 /\ \E p \in refused :
                       /\ \A q \in refused : q = p \/ Earlier(p, q)
                       /\ inv.msg = <<"La valeur '">>
                                    \o Str(AsList(inv.value.items[p[1]])[p[2]])
                                    \o <<"' pour le code ", inv.rule.combination_codes[p[1]],
                                         " n'existe pas en base.">>

\* C14 as stated: in single_code mode the rule accepts a value exactly when
\* it is one sequence as long as combination_codes whose element at every
\* position (a scalar, or each alternate of a sequence of alternates) is
\* allowed for the code of that position; the error names the first invalid
\* alternate in position order.
C14_SingleCodeExactly ==
    \A k \in DOMAIN ran :
        (/\ ran[k].rule.type = "in_database_combination"
         /\ ran[k].rule.combinaison_mode = "single_code"
         /\ allowed_values_lookup # "failing")
            => SingleCodeOutcome(ran[k])

\* C14 as amended: the same for every value other than the scalar "00",
\* which passes.
C14_SingleCodeExactlyUnlessNotApplicable ==
    \A k \in DOMAIN ran :
        (/\ ran[k].rule.type = "in_database_combination"
         /\ ran[k].rule.combinaison_mode = "single_code"
         /\ allowed_values_lookup # "failing")
            => IF ran[k].value = S("00") THEN ran[k].kind = "pass"
               ELSE SingleCodeOutcome(ran[k])

C14_Witness ==
    \E k \in DOMAIN ran :
        /\ ran[k].rule.type = "in_database_combination"
        /\ ran[k].rule.combinaison_mode = "single_code"
        /\ ran[k].rule.combination_codes = <<"C1", "C2">>
        /\ allowed_values_lookup = "fake_db"
        /\ ran[k].value = L(<<S("A0"), L(<<S("6"), S("A0")>>)>>)
        /\ ran[k].kind = "error"

\* the scalars of a flat value that are in the rule's forbidden_values, in
\* value order
Violating(inv) ==
    SelectSeq(AsList(inv.value), LAMBDA v : v.s \in Range(inv.rule.forbidden_values))

\* C15: forbidden_value returns an error exactly when at least one scalar of
\* the value (a scalar counted as a one-element sequence) is in
\* forbidden_values, and the message lists every violating scalar of the
\* value, in value order.
C15_ForbiddenListsEveryViolation ==
    \A k \in DOMAIN ran :
        (ran[k].rule.type = "forbidden_value" /\ FlatValue(ran[k].value))
            => IF Violating(ran[k]) = <<>>
               THEN ran[k].kind = "pass"
               ELSE /\ ran[k].kind = "error"
                    /\ ran[k].msg = <<"La valeur '">> \o Join(", ", Violating(ran[k]), 1)
                                     \o <<"' presente pour ", ran[k].code,
                                          " n'est pas autorisee.">>

C15_Witness ==
    \E k \in DOMAIN ran :
        /\ ran[k].rule.type = "forbidden_value"
        /\ ran[k].rule.forbidden_values = <<"A0", "A2">>
        /\ ran[k].value = L(<<S("A2"), S("A0"), S("A2")>>)
        /\ ran[k].kind = "error"
        /\ ran[k].msg = <<"La valeur '", "A2", ", ", "A0", ", ", "A2",
                          "' presente pour ", "C21", " n'est pas autorisee.">>

\* the rule ran on a record whose casket field C2 is "00"
CasketActive(inv) == inv.c2 = S("00")

\* C16: single_value returns an error exactly when casket mode is inactive
\* (C2 is not "00") and the value is a sequence whose length is not 1 (the
\* empty sequence included); in casket mode it passes for every value, and
\* a scalar always passes.
C16_SingleValueUnlessCasket ==
    \A k \in DOMAIN ran :
        ran[k].rule.type = "single_value"
            => IF ~CasketActive(ran[k]) /\ IsList(ran[k].value)
                  /\ Len(ran[k].value.items) # 1
               THEN /\ ran[k].kind = "error"
                    /\ ran[k].msg = <<"Le champ ", ran[k].code,
                                      " doit contenir une seule valeur.">>
               ELSE ran[k].kind = "pass"

C16_Witness ==
    /\ \E k \in DOMAIN ran :
          /\ ran[k].rule.type = "single_value"
          /\ CasketActive(ran[k])
          /\ ran[k].value = L(<<S("A2"), S("A0")>>)
          /\ ran[k].kind = "pass"
    /\ Returned

\* single_value ran on a 3-element sequence held by a field other than C2
OnThreeElements(inv) ==
    /\ inv.rule.type = "single_value"
    /\ inv.code # "C2"
    /\ IsList(inv.value)
    /\ Len(inv.value.items) = 3

\* C17 as stated: where C2 is not "00", single_value on a 3-element
\* sequence held by another field passes and no error is reported for it.
C17_ThreeElementsPassWithoutCasket ==
    \A k \in DOMAIN ran :
        (OnThreeElements(ran[k]) /\ ~CasketActive(ran[k]))
            => /\ ran[k].kind = "pass"
               /\ ran[k].code \notin Keys(errors)

\* C17 as amended: where C2 is not "00", single_value on a 3-element
\* sequence reports its error for the field; it passes where C2 is "00".
C17_ThreeElementsFailWithoutCasket ==
    \A k \in DOMAIN ran :
        OnThreeElements(ran[k])
            => IF CasketActive(ran[k])
               THEN ran[k].kind = "pass" /\ ran[k].code \notin Keys(errors)
               ELSE /\ ran[k].kind = "error"
                    /\ MsgsUnder(errors, ran[k].code)[1] =
                          <<"Le champ ", ran[k].code, " doit contenir une seule valeur.">>

C17_Witness ==
    /\ Returned
    /\ \E k \in DOMAIN ran :
          /\ OnThreeElements(ran[k])
          /\ ran[k].c2 = S("6")
          /\ ran[k].kind = "error"
          /\ ran[k].code \in Keys(LastResult.errors)

\* the length asked of the value: that of the casket-count field C2 when it
\* is a sequence, 1 when it is a scalar
ExpectedLength(c2) == IF IsList(c2) THEN Len(c2.items) ELSE 1

\* C18: casket_value with match_array_length returns an error exactly when
\* casket mode is active and the value is not a sequence, or is a sequence
\* whose length differs from the length of the casket-count field's value
\* (1 when that field is scalar); with casket mode inactive it passes for
\* every value.
C18_CasketLength ==
    \A k \in DOMAIN ran :
        (ran[k].rule.type = "casket_value" /\ ran[k].rule.match_array_length)
            => IF /\ CasketActive(ran[k])
                  /\ \/ ~IsList(ran[k].value)
                     \/ Len(ran[k].value.items) # ExpectedLength(ran[k].c2)
               THEN ran[k].kind = "error" /\ ran[k].msg # NoMsg
               ELSE ran[k].kind = "pass"

C18_Witness ==
    \E k \in DOMAIN ran :
        /\ ran[k].rule.type = "casket_value"
        /\ ran[k].rule.match_array_length
        /\ CasketActive(ran[k])
        /\ ran[k].value = L(<<S("A2"), S("A0")>>)
        /\ ran[k].kind = "error"
        /\ ran[k].msg = <<"En coffret, ", "C21", " doit etre un tableau de ", "1",
                          " element(s) (taille recue : ", "2", ").">>

\* the value(s) of a field of the record: none when the field is absent,
\* the elements of a sequence, else the value itself
ValuesOf(code) ==
    IF code \notin DOMAIN circle_values THEN {}
    ELSE IF IsList(circle_values[code]) THEN Range(circle_values[code].items)
    ELSE {circle_values[code]}

\* the rule's source field holds its source value
Triggered(inv) == S(inv.rule.source_value) \in ValuesOf(inv.rule.source_code)

\* C19: dependency is a one-directional implication: it returns an error
\* exactly when the source_code field's value(s) contain source_value and
\* this field's value(s) do not contain target_value; when the source field
\* is absent or does not contain source_value the rule passes for every
\* value of this field.
C19_DependencyOneDirectional ==
    \A k \in DOMAIN ran :
        ran[k].rule.type = "dependency"
            => IF Triggered(ran[k])
                  /\ S(ran[k].rule.target_value) \notin Range(AsList(ran[k].value))
               THEN /\ ran[k].kind = "error"
                    /\ ran[k].msg =
                         <<"Si ", ran[k].rule.source_code, " vaut '", ran[k].rule.source_value,
                           "', alors ", ran[k].code, " doit etre '", ran[k].rule.target_value,
                           "' (valeur recue : '">> \o Str(ran[k].value) \o <<"').">>
               ELSE ran[k].kind = "pass"

C19_Witness ==
    /\ Get(circle_values, "C1") = L(<<S("6"), S("A0")>>)
    /\ \E k \in DOMAIN ran :
          /\ ran[k].rule.type = "dependency"
          /\ ran[k].rule.source_code = "C1"
          /\ ran[k].value = L(<<S("A0")>>)
          /\ ran[k].kind = "error"

\* a combination group fully matches the values: its pattern slots can be
\* assigned distinct elements of the values, each matching its slot
FullyMatches(combination, values) ==
    \E f \in [DOMAIN combination -> DOMAIN values] :
        /\ \A p, q \in DOMAIN combination : p # q => f[p] # f[q]
        /\ \A p \in DOMAIN combination : matches(combination[p], values[f[p]])

\* C20: excluded_combinations fails whenever some listed combination group
\* fully matches, whatever the order of the elements of the value and
\* whichever matching element a slot is tried against first.
C20_ExcludedWheneverFullMatch ==
    \A k \in DOMAIN ran :
        (/\ ran[k].rule.type = "excluded_combinations"
         /\ \E c \in DOMAIN ran[k].rule.excluded_combinations :
               FullyMatches(ran[k].rule.excluded_combinations[c], AsList(ran[k].value)))
            => ran[k].kind = "error"

\* the values at the positions f gives to the slots of a group, in slot order
ValuesAt(values, f) == [p \in DOMAIN f |-> values[f[p]]]

\* f gives the slots of the group pairwise distinct positions of the values,
\* each holding a value that matches its slot
DistinctMatching(combination, values, f) ==
    /\ \A p, q \in DOMAIN combination : p # q => f[p] # f[q]
    /\ \A p \in DOMAIN combination : matches(combination[p], values[f[p]])

\* the message of a failed excluded_combinations rule naming `matched`
ExcludedMsg(code, matched) ==
    <<"La combinaison ">> \o format_matched_values(matched, 1)
    \o <<" n'est pas autorisee pour le code ", code, ".">>

\* C21: whenever excluded_combinations fails, the values its message reports
\* are one per pattern slot of a listed group, taken from pairwise distinct
\* positions of the value, each matching the slot at its index, and listed
\* in slot order joined by " + ".
C21_ExcludedNeverReusesValue ==
    \A k \in DOMAIN ran :
        (ran[k].rule.type = "excluded_combinations" /\ ran[k].kind = "error")
            => \E c \in DOMAIN ran[k].rule.excluded_combinations :
                 \E f \in [DOMAIN ran[k].rule.excluded_combinations[c]
                            -> DOMAIN AsList(ran[k].value)] :
                    /\ DistinctMatching(ran[k].rule.excluded_combinations[c],
                                        AsList(ran[k].value), f)
                    /\ ran[k].msg = ExcludedMsg(ran[k].code, ValuesAt(AsList(ran[k].value), f))

\* a group naming "A2" twice has failed on a value holding "A2" twice,
\* reporting both
C21_Witness ==
    \E k \in DOMAIN ran :
        /\ ran[k].rule = RExcluded
        /\ ran[k].value = L(<<S("A2"), S("A2")>>)
        /\ ran[k].kind = "error"
        /\ ran[k].msg = ExcludedMsg(ran[k].code, <<S("A2"), S("A2")>>)

\* datetime.today().year
today_year == 2026

\* int(s) for the 4-digit vintages of the model
FourDigit == {"2017", "2018", "2019", "2020"}
YearOf(s) ==
    CASE s = "2017" -> 2017 [] s = "2018" -> 2018 [] s = "2019" -> 2019
      [] s = "2020" -> 2020 [] OTHER -> 0

\* the product the rule resolves from C10 of the record
ResolvedProduct == find_product([circle_values |-> circle_values, products |-> products])

\* the excluded vintages of a product row (a comma-separated text, or "ND")
ExcludedVintages(row) ==
    IF row.ExcludedVintage \in {"", "ND"} THEN {} ELSE {row.ExcludedVintage}

\* what the vintage checks ask of a 4-digit vintage against a product row
VintageRefused(vintage, row) ==
    \/ vintage \in ExcludedVintages(row)
    \/ row.StartingVintage # "ND" /\ YearOf(vintage) < YearOf(row.StartingVintage)
    \/ row.LateVintage # "ND" /\ YearOf(vintage) > YearOf(row.LateVintage)
    \/ YearOf(vintage) > today_year

\* C22: product_vintage, for a resolvable product and a 4-digit vintage in
\* C11, fails exactly when the vintage is excluded, before a start bound
\* that is not "ND", after an end bound that is not "ND", or later than the
\* current year, and passes otherwise.
C22_ProductVintageFailsExactlyWhen ==
    \A k \in DOMAIN ran :
        (/\ ran[k].rule.type = "product_vintage"
         /\ ResolvedProduct.found
         /\ IsStr(Get(circle_values, "C11"))
         /\ Get(circle_values, "C11").s \in FourDigit)
            => ran[k].kind = IF VintageRefused(Get(circle_values, "C11").s, ResolvedProduct.row)
                             THEN "error" ELSE "pass"

\* the product code of the record resolves to no product: C10 is absent or
\* empty, the master data is unavailable, or no row carries the code
Unresolvable ==
    \/ ~Truthy(Get(circle_values, "C10"))
    \/ products = "unavailable"
    \/ \A i \in DOMAIN ProductRows : S(ProductRows[i].CircleCode) # Get(circle_values, "C10")

\* C23: product_vintage passes whenever the product cannot be resolved or
\* the vintage field C11 is absent or empty, whatever the value of the field
\* the rule is attached to.
C23_ProductVintagePassesUnresolved ==
    \A k \in DOMAIN ran :
        (/\ ran[k].rule.type = "product_vintage"
         /\ (Unresolvable \/ ~Truthy(Get(circle_values, "C11"))))
            => ran[k].kind = "pass"

\* the rule, attached to C11, has passed on a vintage whose product code
\* names no product
C23_Witness ==
    \E k \in DOMAIN ran :
        /\ ran[k].rule.type = "product_vintage"
        /\ ran[k].code = "C11"
        /\ ran[k].value = S("2019")
        /\ Get(circle_values, "C10") = S("XX")
        /\ products = "loaded"
        /\ ran[k].kind = "pass"

\* casket_value with match_array_length ran
LengthRule(inv) == inv.rule.type = "casket_value" /\ inv.rule.match_array_length

\* C28: whenever casket_value with match_array_length constrains a value,
\* the expected length is 1: the rule refuses a value only when C2 is the
\* scalar "00", its message then asks for 1 element, and with C2 = "00" a
\* sequence passes exactly when it has one element.
C28_ExpectedLengthIsOne ==
    \A k \in DOMAIN ran :
        LengthRule(ran[k])
            => /\ ran[k].kind = "error"
                    => /\ ran[k].c2 = S("00")
                       /\ ExpectedLength(ran[k].c2) = 1
                       /\ ran[k].msg[4] = "1"
               /\ (ran[k].c2 = S("00") /\ IsList(ran[k].value))
                    => (ran[k].kind = "pass" <=> Len(ran[k].value.items) = 1)

\* with C2 = "00" a one-element sequence has passed the length rule
C28_Witness ==
    \E k \in DOMAIN ran :
        /\ LengthRule(ran[k])
        /\ ran[k].c2 = S("00")
        /\ ran[k].value = L(<<S("A2")>>)
        /\ ran[k].kind = "pass"

\* the field codes the config lists
Configured == {config[i].code : i \in DOMAIN config}

\* a message with some text in it
NonEmptyMsg(msg) == \E t \in DOMAIN msg : msg[t] # ""

\* some rule of the last run returned an error for the field
FailedOn(code) == \E k \in DOMAIN ran : ran[k].code = code /\ ran[k].kind = "error"

\* C29: in the mapping the first validate call of a service returns, every
\* key is a configured field code present in the record with a non-null
\* value, every value is a non-empty list of non-empty messages, a field all
\* of whose rules passed has no key, and the mapping is empty exactly when
\* no rule failed.
C29_ResultShape ==
    (Len(results) = 1 /\ Returned)
        => /\ \A code \in Keys(LastResult.errors) :
                 /\ code \in Configured
                 /\ Present(code)
                 /\ Len(MsgsUnder(LastResult.errors, code)) > 0
                 /\ \A m \in DOMAIN MsgsUnder(LastResult.errors, code) :
                       NonEmptyMsg(MsgsUnder(LastResult.errors, code)[m])
           /\ \A code \in Configured : ~FailedOn(code) => code \notin Keys(LastResult.errors)
           /\ (LastResult.errors = <<>>) <=> (\A code \in Configured : ~FailedOn(code))

\* a first call has returned a mapping with a key for the field whose rule
\* failed and none for the field whose rules ran and passed
C29_Witness ==
    /\ Len(results) = 1
    /\ Returned
    /\ Keys(LastResult.errors) = {"C38"}
    /\ \E k \in DOMAIN ran : ran[k].code = "C21" /\ ran[k].kind = "pass"
    /\ ~FailedOn("C21")

\* ------------------------------------------------ claims: order management
\* what validating `data` under the loaded content gives
ValidationOf(data) == order_validation(circle_config_json_content, data)

PassesValidation(run) == ~run.raised /\ run.errors = <<>>

\* C25: update_order_details returns True for an existing order and new data
\* that passes validation, the stored circle_data then being the new data;
\* it returns False when validation reports errors or the order does not
\* exist.
C25_UpdateOrderDetails ==
    last_call.op = "update_order_details"
        => /\ last_call.returned \in {"True", "False"}
           /\ last_call.returned = "True"
                 => /\ last_call.cle \in DOMAIN orders
                    /\ get_order_by_cle(orders, last_call.cle).circle_data = last_call.data
           /\ last_call.cle \notin DOMAIN orders => last_call.returned = "False"

\* what a step that is a create_new_order call has to satisfy, given what
\* validating its record gives
CreateStep(run) ==
    /\ (~run.raised /\ run.errors # <<>>)
          => /\ last_call'.returned = "None"
             /\ orders' = orders
    /\ (PassesValidation(run) /\ last_call'.returned = "cle")
          => /\ last_call'.cle \in DOMAIN orders'
             /\ last_call'.cle \notin DOMAIN orders
             /\ get_order_by_cle(orders', last_call'.cle) =
                   [current_holder |-> last_call'.holder, status |-> "new_draft",
                    created_by |-> last_call'.creator,
                    last_modified_by |-> last_call'.creator,
                    circle_data |-> last_call'.data]
    /\ last_call'.returned = "cle" => PassesValidation(run)

\* C26: create_new_order never persists an invalid record: when validation
\* of the initial data returns an error it returns None and the Orders table
\* is left as it was; when validation returns no error and the insert
\* succeeds, the stored order has the initial data, current_holder equal to
\* the broker id and status "new_draft".
C26_NeverPersistsInvalid ==
    [][last_call'.op = "create_new_order"
          => CreateStep(order_validation(circle_config_json_content', last_call'.data))]_vars

\* a record the config refuses has been turned down, the table still empty
C26_Witness ==
    /\ last_call.op = "create_new_order"
    /\ ValidationOf(last_call.data).errors # <<>>
    /\ last_call.returned = "None"
    /\ orders = <<>>

\* C27: creating an order under a CLE that already exists fails without
\* effect: database.create_order, and so create_new_order, returns None and
\* every stored order stays as it was, after any sequence of calls.
C27_DuplicateCleWithoutEffect ==
    [][(/\ last_call'.op \in {"create_new_order", "database.create_order"}
        /\ last_call'.cle \in DOMAIN orders)
          => /\ last_call'.returned = "None"
             /\ orders' = orders]_vars

\* a second create_new_order, by another creator and with other data that
\* give the same CLE, has returned None and the first call's row is kept
C27_Witness ==
    /\ last_call.op = "create_new_order"
    /\ last_call.valid = "no_errors"
    /\ last_call.returned = "None"
    /\ last_call.cle \in DOMAIN orders
    /\ last_call.cle = generate_cle(last_call.data, "")
    /\ orders[last_call.cle].created_by \in Users \ {last_call.creator}
    /\ json_loads(orders[last_call.cle].circle_data) # last_call.data
    /\ orders[last_call.cle].status = "new_draft"

\* ------------------------------------------------------ claims: HTTP API
\* the history entries of a CLE, in the order they were written
RECURSIVE HistoryFrom(_, _)
HistoryFrom(cle, i) ==
    IF i > Len(order_history) THEN <<>>
    ELSE (IF order_history[i].cle = cle THEN <<order_history[i]>> ELSE <<>>)
         \o HistoryFrom(cle, i + 1)
HistoryOf(cle) == HistoryFrom(cle, 1)

\* C30: in the HTTP order API an order row and its history are written
\* together: every stored order has exactly one "Created" history entry, its
\* last entry's changed_data is the order's stored data, every history entry
\* belongs to a stored order, and an update of an unknown CLE is answered
\* 404 and adds neither an order nor a history entry.
C30_OrderAndHistoryTogether ==
    /\ \A cle \in DOMAIN api_orders :
          /\ Cardinality({i \in DOMAIN HistoryOf(cle) :
                            HistoryOf(cle)[i].action = "Created"}) = 1
          /\ HistoryOf(cle)[Len(HistoryOf(cle))].changed_data = api_orders[cle].data
    /\ \A i \in DOMAIN order_history : order_history[i].cle \in DOMAIN api_orders
    /\ (response.method = "PUT" /\ response.cle \in UnknownCles)
          => /\ response.status_code = 404
             /\ response.cle \notin DOMAIN api_orders

====
